---- MODULE Spec2Model ----
(***************************************************************************)
(* Shader / material subsystem of simple-gltf-renderer.                    *)
(*                                                                         *)
(* Rust values are modelled as follows.                                    *)
(*   Option<T>        a sequence of length <= 1: None == <<>>, Some(x)     *)
(*   HashMap<K, V>    a function whose DOMAIN is the key set               *)
(*   Vec<T>           a sequence                                           *)
(*   Vec<u8>          a sequence of numbers in 0..255                      *)
(*   f32              its IEEE-754 bit pattern, a number in 0..2^32-1      *)
(*   a panic          the variable panicked becoming TRUE                  *)
(***************************************************************************)
EXTENDS Integers, Sequences, FiniteSets, TLC

VARIABLES desc, args, shader, material, buffers, next_buffer, pending, last, history,
          input, engine, render_pipelines, frame, error, submitted

vars == <<desc, args, shader, material, buffers, next_buffer, pending, last, history,
          input, engine, render_pipelines, frame, error, submitted>>

----------------------------------------------------------------------------
(* Bounds of the model.                                                    *)

MaxProps == 3
MaxTex == 3
MaxBuffers == 2
MaxPending == 1

----------------------------------------------------------------------------
(* Option and HashMap.                                                     *)

None == <<>>
Some(x) == <<x>>
is_some(o) == Len(o) = 1
is_none(o) == Len(o) = 0
unwrap(o) == o[1]

EmptyMap == [k \in {} |-> 0]
contains_key(m, k) == k \in DOMAIN m
insert(m, k, v) == [x \in (DOMAIN m) \cup {k} |-> IF x = k THEN v ELSE m[x]]
MapValues(m) == {m[k] : k \in DOMAIN m}

(* All sequences over S of length at most n. *)
SeqsUpTo(S, n) == UNION {[1..k -> S] : k \in 0..n}

(* One iteration order of a HashMap's keys (the order is unspecified). *)
RECURSIVE KeySeq(_)
KeySeq(S) == IF S = {} THEN <<>>
             ELSE LET k == CHOOSE x \in S : TRUE IN <<k>> \o KeySeq(S \ {k})

----------------------------------------------------------------------------
(* shader.rs: UniformProperty, TextureProperty.                            *)

UniformProperty == {"Float", "Vec2", "Vec3", "Vec4", "Mat3", "Mat4"}

size(u) ==
    CASE u = "Float" -> 4
      [] u = "Vec2" -> 8
      [] u = "Vec3" -> 12
      [] u = "Vec4" -> 16
      [] u = "Mat3" -> 48
      [] u = "Mat4" -> 64

align(u) ==
    CASE u = "Float" -> 4
      [] u = "Vec2" -> 8
      [] u = "Vec3" -> 16
      [] u = "Vec4" -> 16
      [] u = "Mat3" -> 16
      [] u = "Mat4" -> 16

Texture2D(default) == [kind |-> "Texture2D", default |-> default]
Texture3D == [kind |-> "Texture3D", default |-> ""]
TextureCube == [kind |-> "TextureCube", default |-> ""]

----------------------------------------------------------------------------
(* texture.rs: Texture and the fixed placeholder textures.                 *)

(* wgpu::Extent3d::max_mips: 32 - leading_zeros(max dimension). *)
RECURSIVE bit_length(_)
bit_length(n) == IF n = 0 THEN 0 ELSE 1 + bit_length(n \div 2)

max3(a, b, c) == IF a >= b /\ a >= c THEN a ELSE IF b >= c THEN b ELSE c

max_mips(sz) == bit_length(max3(sz.width, sz.height, sz.depth))

from_bytes_2d(bytes, width, height, format, mipmap, label) ==
    LET sz == [width |-> width, height |-> height, depth |-> 1] IN
    [label |-> label, dimension |-> "D2", view_dimension |-> "D2", size |-> sz,
     format |-> format, mip_level_count |-> IF mipmap THEN max_mips(sz) ELSE 1,
     bytes |-> bytes]

from_bytes_cube(bytes, width, format, mipmap, label) ==
    LET sz == [width |-> width, height |-> width, depth |-> 6]
        layer_size == [sz EXCEPT !.depth = 1] IN
    [label |-> label, dimension |-> "D2", view_dimension |-> "Cube", size |-> sz,
     format |-> format,
     mip_level_count |-> IF mipmap THEN max_mips(layer_size) ELSE 1,
     bytes |-> bytes]

from_bytes_3d(bytes, width, height, depth, format, mipmap, label) ==
    LET sz == [width |-> width, height |-> height, depth |-> depth] IN
    [label |-> label, dimension |-> "D3", view_dimension |-> "D3", size |-> sz,
     format |-> format, mip_level_count |-> IF mipmap THEN max_mips(sz) ELSE 1,
     bytes |-> bytes]

white1x1 == from_bytes_2d(<<255, 255, 255, 255>>, 1, 1, "Rgba8Unorm", FALSE, "White 1x1")
black1x1 == from_bytes_2d(<<0, 0, 0, 255>>, 1, 1, "Rgba8Unorm", FALSE, "Black 1x1")
gray1x1 == from_bytes_2d(<<128, 128, 128, 255>>, 1, 1, "Rgba8Unorm", FALSE, "Gray 1x1")
normal1x1 == from_bytes_2d(<<128, 128, 255, 255>>, 1, 1, "Rgba8Unorm", FALSE, "Normal 1x1")

default_cube ==
    from_bytes_cube(<<255, 0, 0, 255, 0, 255, 255, 255, 0, 255, 0, 255,
                      255, 0, 255, 255, 0, 0, 255, 255, 255, 255, 0, 255>>,
                    1, "Rgba8Unorm", FALSE, "Default Cube")

black1x1x1 == from_bytes_3d(<<0, 0, 0, 255>>, 1, 1, 1, "Rgba8Unorm", FALSE, "Black 1x1x1")

(* The TextureProperty kind a texture can be bound as: the dimension of its view. *)
texture_kind(tex) ==
    CASE tex.view_dimension = "D2" -> "Texture2D"
      [] tex.view_dimension = "D3" -> "Texture3D"
      [] tex.view_dimension = "Cube" -> "TextureCube"

----------------------------------------------------------------------------
(* shader.rs: Shader::new, Shader::build.                                  *)

(* An indexing that counts texture properties from 1. *)
RECURSIVE index_textures_from_one(_, _, _)
index_textures_from_one(texture_properties, i, textures_index) ==
    IF i > Len(texture_properties) THEN textures_index
    ELSE index_textures_from_one(texture_properties, i + 1,
                                 insert(textures_index, texture_properties[i].name, i))

(* Lines 77-80: textures_index.insert(name, i) over enumerate(), 0-based. *)
RECURSIVE index_textures(_, _, _)
index_textures(texture_properties, i, textures_index) ==
    IF i > Len(texture_properties) THEN textures_index
    ELSE index_textures(texture_properties, i + 1,
                        insert(textures_index, texture_properties[i].name, i - 1))

(* Lines 81-84: texture_properties_hm.insert(name, tex) in list order. *)
RECURSIVE collect_textures(_, _, _)
collect_textures(texture_properties, i, hm) ==
    IF i > Len(texture_properties) THEN hm
    ELSE collect_textures(texture_properties, i + 1,
                          insert(hm, texture_properties[i].name, texture_properties[i].ty))

Shader_new(name, uniform_properties, texture_properties, sub_shaders) ==
    [name |-> name,
     uniform_properties |-> uniform_properties,
     texture_properties |-> collect_textures(texture_properties, 1, EmptyMap),
     textures_index |-> index_textures(texture_properties, 1, EmptyMap),
     sub_shaders |-> sub_shaders,
     uniform_size |-> 0,
     uniform_offsets |-> EmptyMap,
     bind_group_layout |-> None]

get_uniform_offset(sh, name) ==
    IF contains_key(sh.uniform_offsets, name) THEN Some(sh.uniform_offsets[name]) ELSE None

get_texture_index(sh, name) ==
    IF contains_key(sh.textures_index, name) THEN Some(sh.textures_index[name]) ELSE None

(* A packing that leaves total_size where it is, ignoring the alignment. *)
aligned_unpadded(total_size, al) == total_size

(* Lines 141-145: total_size moved up to the property's alignment. *)
aligned(total_size, al) ==
    LET diff == total_size % al IN
    IF diff # 0 THEN total_size + (al - diff) ELSE total_size

(* Lines 140-148: one pass over uniform_properties, total_size running. *)
RECURSIVE offsets_loop(_, _, _, _)
offsets_loop(uniform_properties, i, uniform_offsets, total_size) ==
    IF i > Len(uniform_properties)
    THEN [uniform_offsets |-> uniform_offsets, total_size |-> total_size]
    ELSE LET uniform == uniform_properties[i].ty
             at == aligned(total_size, align(uniform))
         IN offsets_loop(uniform_properties, i + 1,
                         insert(uniform_offsets, uniform_properties[i].name, at),
                         at + size(uniform))

(* Lines 149-153: round the total up to a multiple of 16. *)
(* A total size left as the packing ends, without the rounding to 16. *)
not_rounded(total_size) == total_size

(* Lines 149-153: total_size rounded up to a multiple of 16. *)
round_up_16(total_size) ==
    LET diff == total_size % 16 IN
    IF diff # 0 THEN total_size + (16 - diff) ELSE total_size

build_uniform_offsets(sh) ==
    LET r == offsets_loop(sh.uniform_properties, 1, EmptyMap, 0) IN
    [sh EXCEPT !.uniform_offsets = r.uniform_offsets,
               !.uniform_size = round_up_16(r.total_size)]

(* shader_util::compile_to_module: reads and compiles one source file; the
   files that do not compile are the environment's. *)
BrokenFiles == {"broken.vert", "broken.frag"}

compile_to_module(path) == IF path \in BrokenFiles THEN None ELSE Some(path)

(* wgpu's BlendState::REPLACE, which is also BlendState::default(). *)
BlendState_REPLACE == [src_factor |-> "One", dst_factor |-> "Zero", operation |-> "Add"]

(* wgpu's StencilFaceState::IGNORE and StencilState::default(). *)
StencilFaceState_IGNORE ==
    [compare |-> "Always", fail_op |-> "Keep", depth_fail_op |-> "Keep", pass_op |-> "Keep"]

StencilState_default ==
    [front |-> StencilFaceState_IGNORE, back |-> StencilFaceState_IGNORE,
     read_mask |-> 0, write_mask |-> 0]

ColorWrite_ALL == {"RED", "GREEN", "BLUE", "ALPHA"}

(* Lines 55-68: impl Default for SubShaderOption. *)
SubShaderOption_default ==
    [cull_mode |-> "Back",
     front_face |-> "Ccw",
     write_mask |-> ColorWrite_ALL,
     color_blend |-> BlendState_REPLACE,
     alpha_blend |-> BlendState_REPLACE,
     depth_write |-> TRUE,
     depth_compare |-> "Less",
     stencil |-> StencilState_default]

SubShader_new(name, options, vs_file, fs_file, shader_definition) ==
    [tag |-> name, options |-> options, vs_file |-> vs_file, fs_file |-> fs_file,
     shader_definition |-> shader_definition,
     vs_module |-> None, fs_module |-> None]

(* SubShader::build: `?` returns before the assignment it is part of. *)
SubShader_build(sub) ==
    LET vs == compile_to_module(sub.vs_file)
        fs == compile_to_module(sub.fs_file) IN
    IF is_none(vs) THEN [sub |-> sub, ok |-> FALSE]
    ELSE IF is_none(fs) THEN [sub |-> [sub EXCEPT !.vs_module = vs], ok |-> FALSE]
    ELSE [sub |-> [sub EXCEPT !.vs_module = vs, !.fs_module = fs], ok |-> TRUE]

(* build_sub_shaders: the HashMap is walked in `order`; the first Err returns. *)
RECURSIVE build_sub_shaders(_, _, _)
build_sub_shaders(sub_shaders, order, i) ==
    IF i > Len(order) THEN [sub_shaders |-> sub_shaders, ok |-> TRUE]
    ELSE LET r == SubShader_build(sub_shaders[order[i]])
             updated == [sub_shaders EXCEPT ![order[i]] = r.sub] IN
         IF r.ok THEN build_sub_shaders(updated, order, i + 1)
         ELSE [sub_shaders |-> updated, ok |-> FALSE]

uniform_bind_group_entry(binding) ==
    [binding |-> binding, ty |-> "Buffer", view_dimension |-> ""]

texture_bind_group_entry(binding, view_dimension) ==
    [binding |-> binding, ty |-> "Texture", view_dimension |-> view_dimension]

sampler_bind_group_entry(binding) ==
    [binding |-> binding, ty |-> "Sampler", view_dimension |-> ""]

view_dimension_of(tex) ==
    CASE tex.kind = "Texture2D" -> "D2"
      [] tex.kind = "Texture3D" -> "D3"
      [] tex.kind = "TextureCube" -> "Cube"

(* Lines 117 and 121: the binding numbers of texture index i in the layout. *)
layout_view_binding(index) == index * 2 + 1

layout_sampler_binding(index) == index * 2 + 2

(* Lines 108-123: entry 0, then a view and a sampler entry per texture property. *)
RECURSIVE layout_entries(_, _, _, _)
layout_entries(sh, names, i, entries) ==
    IF i > Len(names) THEN entries
    ELSE layout_entries(sh, names, i + 1,
             entries \o
             <<texture_bind_group_entry(layout_view_binding(sh.textures_index[names[i]]),
                                        view_dimension_of(sh.texture_properties[names[i]])),
               sampler_bind_group_entry(layout_sampler_binding(sh.textures_index[names[i]]))>>)

(* Shader::build with the sub-shaders walked in `order`. *)
Shader_build(sh, order) ==
    LET r == build_sub_shaders(sh.sub_shaders, order, 1) IN
    IF ~r.ok THEN [shader |-> [sh EXCEPT !.sub_shaders = r.sub_shaders], ok |-> FALSE]
    ELSE LET compiled == [sh EXCEPT !.sub_shaders = r.sub_shaders]
             entries == layout_entries(compiled, KeySeq(DOMAIN compiled.texture_properties),
                                       1, <<uniform_bind_group_entry(0)>>)
             laid == [compiled EXCEPT !.bind_group_layout = Some(entries)] IN
         [shader |-> build_uniform_offsets(laid), ok |-> TRUE]

----------------------------------------------------------------------------
(* material.rs: Material.                                                  *)

zeros(n) == [i \in 1..n |-> 0]

(* f32::to_le_bytes of the value with bit pattern x. *)
to_le_bytes(x) ==
    <<x % 256, (x \div 256) % 256, (x \div 65536) % 256, (x \div 16777216) % 256>>

(* AsByteSlice of a [f32; n]: the elements' bytes in memory order (every
   target wgpu supports is little-endian). *)
RECURSIVE as_byte_slice(_)
as_byte_slice(values) ==
    IF values = <<>> THEN <<>>
    ELSE to_le_bytes(Head(values)) \o as_byte_slice(Tail(values))

(* Lines 31-40: the texture a property starts with. *)
(* A default lookup that knows the spelling "gray" only. *)
default_tex_gray_only(tex_ty) ==
    IF tex_ty.kind = "Texture2D"
    THEN CASE tex_ty.default = "white" -> white1x1
           [] tex_ty.default = "black" -> black1x1
           [] tex_ty.default = "gray" -> gray1x1
           [] tex_ty.default = "normal" -> normal1x1
           [] OTHER -> black1x1
    ELSE white1x1

(* Lines 31-40: the texture a property starts with. *)
default_tex(tex_ty) ==
    IF tex_ty.kind = "Texture2D"
    THEN CASE tex_ty.default = "white" -> white1x1
           [] tex_ty.default = "black" -> black1x1
           [] tex_ty.default \in {"gray", "grey"} -> gray1x1
           [] tex_ty.default = "normal" -> normal1x1
           [] OTHER -> black1x1
    ELSE white1x1

(* A material whose byte buffer holds four bytes per uniform property. *)
Material_from_shader_packed(name, sh) ==
    [name |-> name,
     shader |-> sh.name,
     uniform_bytes |-> zeros(4 * Len(sh.uniform_properties)),
     uniform_offsets |-> sh.uniform_offsets,
     uniform_buffer |-> None,
     textures |-> [tex_name \in DOMAIN sh.texture_properties |->
                       default_tex(sh.texture_properties[tex_name])],
     textures_index |-> sh.textures_index,
     bind_group |-> None]

(* Lines 20-54: Material::from_shader. *)
Material_from_shader(name, sh) ==
    [name |-> name,
     shader |-> sh.name,
     uniform_bytes |-> zeros(sh.uniform_size),
     uniform_offsets |-> sh.uniform_offsets,
     uniform_buffer |-> None,
     textures |-> [tex_name \in DOMAIN sh.texture_properties |->
                       default_tex(sh.texture_properties[tex_name])],
     textures_index |-> sh.textures_index,
     bind_group |-> None]

(* dst[offset..offset + n].copy_from_slice(src): the range check of the slice
   comes first and panics, leaving dst untouched. *)
slice_in_range(bytes, offset, n) == offset + n <= Len(bytes)

(* A write that inserts src at offset, pushing the bytes behind it back. *)
inserted_at(bytes, offset, src) ==
    SubSeq(bytes, 1, offset) \o src \o SubSeq(bytes, offset + 1, Len(bytes))

copy_from_slice(bytes, offset, src) ==
    [i \in 1..Len(bytes) |->
        IF i > offset /\ i <= offset + Len(src) THEN src[i - offset] ELSE bytes[i]]

(* A setter body that writes at offset 0 when it does not know the name. *)
write_uniform_or_zero(mat, name, n, value_bytes) ==
    LET offset == IF contains_key(mat.uniform_offsets, name)
                  THEN mat.uniform_offsets[name] ELSE 0 IN
    IF slice_in_range(mat.uniform_bytes, offset, n)
    THEN [material |-> [mat EXCEPT !.uniform_bytes =
                            copy_from_slice(mat.uniform_bytes, offset, value_bytes)],
          result |-> "ok"]
    ELSE [material |-> mat, result |-> "panic"]

(* The body every typed setter shares: look the offset up, write n bytes. *)
write_uniform(mat, name, n, value_bytes) ==
    IF contains_key(mat.uniform_offsets, name)
    THEN LET offset == mat.uniform_offsets[name] IN
         IF slice_in_range(mat.uniform_bytes, offset, n)
         THEN [material |-> [mat EXCEPT !.uniform_bytes =
                                 copy_from_slice(mat.uniform_bytes, offset, value_bytes)],
               result |-> "ok"]
         ELSE [material |-> mat, result |-> "panic"]
    ELSE [material |-> mat, result |-> "ok"]

set_float(mat, name, value) == write_uniform(mat, name, 4, to_le_bytes(value[1]))

set_vec2(mat, name, value) == write_uniform(mat, name, 8, as_byte_slice(value))

set_vec3(mat, name, value) == write_uniform(mat, name, 12, as_byte_slice(value))

set_vec4(mat, name, value) == write_uniform(mat, name, 16, as_byte_slice(value))

(* value is column-major: x.x x.y x.z y.x y.y y.z z.x z.y z.z; 0 is 0.0f32. *)
set_mat3(mat, name, value) ==
    LET value_arr == <<value[1], value[2], value[3], 0,
                       value[4], value[5], value[6], 0,
                       value[7], value[8], value[9], 0>> IN
    write_uniform(mat, name, 48, as_byte_slice(value_arr))

set_mat4(mat, name, value) == write_uniform(mat, name, 64, as_byte_slice(value))

set_texture(mat, name, value) ==
    IF contains_key(mat.textures, name)
    THEN [mat EXCEPT !.textures[name] = value]
    ELSE mat

(* A view binding numbered 2i, one below the layout's. *)
group_view_binding_even(index) == index * 2

(* Lines 133 and 137: the binding numbers of texture index i in the bind group. *)
group_view_binding(index) == index * 2 + 1

group_sampler_binding(index) == index * 2 + 2

(* Lines 126-140: the bind group's entries. *)
RECURSIVE bind_entries(_, _, _, _)
bind_entries(mat, names, i, entries) ==
    IF i > Len(names) THEN entries
    ELSE bind_entries(mat, names, i + 1,
             entries \o
             <<[binding |-> group_view_binding(mat.textures_index[names[i]]),
                resource |-> "TextureView", buffer |-> 0,
                texture |-> Some(mat.textures[names[i]])],
               [binding |-> group_sampler_binding(mat.textures_index[names[i]]),
                resource |-> "Sampler", buffer |-> 0,
                texture |-> Some(mat.textures[names[i]])]>>)

(* Material::build with the new buffer's handle `id`. *)
Material_build(mat, id, layout) ==
    LET with_buffer == [mat EXCEPT !.uniform_buffer = Some(id)]
        entries == bind_entries(with_buffer, KeySeq(DOMAIN with_buffer.textures), 1,
                                <<[binding |-> 0, resource |-> "Buffer", buffer |-> id,
                                   texture |-> None]>>) IN
    [with_buffer EXCEPT !.bind_group = Some([layout |-> layout, entries |-> entries])]

----------------------------------------------------------------------------
(* The device and its queue: buffers by handle, and the queue's writes,    *)
(* which wgpu applies at the start of the next submit.                     *)

remove_key(m, k) == [x \in (DOMAIN m) \ {k} |-> m[x]]

drop_buffer(bufs, handle) ==
    IF is_some(handle) THEN remove_key(bufs, unwrap(handle)) ELSE bufs

(* A write_buffer that queues nothing. *)
write_buffer_dropped(queue, id, offset, data) == queue

(* queue.write_buffer: the write is queued for the next submit. *)
write_buffer(queue, id, offset, data) ==
    Append(queue, [buffer |-> id, offset |-> offset, data |-> data])

RECURSIVE apply_writes(_, _)
apply_writes(bufs, queue) ==
    IF queue = <<>> THEN bufs
    ELSE LET w == Head(queue)
             written == IF contains_key(bufs, w.buffer)
                        THEN [bufs EXCEPT ![w.buffer] = copy_from_slice(@, w.offset, w.data)]
                        ELSE bufs
         IN apply_writes(written, Tail(queue))

(* What a command of the next submission reads from buffer id. *)
Visible(id) == apply_writes(buffers, pending)[id]

----------------------------------------------------------------------------
(* The calls.  last is the most recent call: its name, its arguments, how  *)
(* it ended ("ok", "err", "panic") and, for set_float, the uniform bytes   *)
(* it found.  args holds the values this run's callers pass to setters.    *)
(* history remembers, of the current material: whether its shader was      *)
(* built when from_shader ran, whether set_texture was called on it, and   *)
(* the uniform bytes of its most recent build or update.                   *)

Call(op, name, value, texture, before, result) ==
    [op |-> op, name |-> name, value |-> value, texture |-> texture,
     before |-> before, result |-> result]

NoCall ==
    [op |-> "", name |-> "", value |-> <<>>, texture |-> None,
     before |-> <<>>, result |-> "ok"]

NoHistory == [built_first |-> FALSE, texture_set |-> FALSE, pushed |-> <<>>]

Panicked == last.result = "panic"

(* All walks of a HashMap with key set S. *)
Orders(S) == {o \in [1..Cardinality(S) -> S] : {o[i] : i \in DOMAIN o} = S}

ShaderNew ==
    /\ is_none(shader)
    /\ shader' = Some(Shader_new(desc.name, desc.uniform_properties,
                                 desc.texture_properties, desc.sub_shaders))
    /\ last' = Call("Shader::new", desc.name, <<>>, None, <<>>, "ok")
    /\ UNCHANGED <<submitted, input, engine, render_pipelines, frame, error, desc, args, material, buffers, next_buffer, pending, history>>

ShaderBuild ==
    /\ ~Panicked
    /\ is_some(shader)
    /\ \E order \in Orders(DOMAIN unwrap(shader).sub_shaders) :
          LET r == Shader_build(unwrap(shader), order) IN
          /\ shader' = Some(r.shader)
          /\ last' = Call("Shader::build", unwrap(shader).name, <<>>, None, <<>>,
                          IF r.ok THEN "ok" ELSE "err")
    /\ UNCHANGED <<submitted, input, engine, render_pipelines, frame, error, desc, args, material, buffers, next_buffer, pending, history>>

FromShader ==
    /\ ~Panicked
    /\ is_some(shader)
    /\ material' = Some(Material_from_shader("material", unwrap(shader)))
    /\ buffers' = IF is_some(material)
                  THEN drop_buffer(buffers, unwrap(material).uniform_buffer)
                  ELSE buffers
    /\ last' = Call("Material::from_shader", "material", <<>>, None, <<>>, "ok")
    /\ history' = [built_first |-> is_some(unwrap(shader).bind_group_layout),
                   texture_set |-> FALSE, pushed |-> <<>>]
    /\ UNCHANGED <<submitted, input, engine, render_pipelines, frame, error, desc, args, shader, next_buffer, pending>>

(* Bit patterns of positive f32 values (sign bit clear): 1.0 and 0.5. *)
F32(exponent, mantissa) == exponent * 2^23 + mantissa

F32_1_0 == F32(127, 0)
F32_0_5 == F32(126, 0)

SetterNames == {"a", "b", "missing"}

SetterStep(op, name, value, r) ==
    /\ material' = Some(r.material)
    /\ last' = Call(op, name, value, None,
                    IF op = "set_float" THEN unwrap(material).uniform_bytes ELSE <<>>,
                    r.result)
    /\ UNCHANGED <<submitted, input, engine, render_pipelines, frame, error, desc, args, shader, buffers, next_buffer, pending, history>>

SetFloat ==
    /\ ~Panicked /\ is_some(material)
    /\ \E name \in SetterNames, v \in args.floats :
          LET value == [i \in 1..1 |-> v] IN
          SetterStep("set_float", name, value, set_float(unwrap(material), name, value))

SetVec2 ==
    /\ ~Panicked /\ is_some(material)
    /\ \E name \in SetterNames, v \in args.vectors :
          LET value == [i \in 1..2 |-> v] IN
          SetterStep("set_vec2", name, value, set_vec2(unwrap(material), name, value))

SetVec3 ==
    /\ ~Panicked /\ is_some(material)
    /\ \E name \in SetterNames, v \in args.vectors :
          LET value == [i \in 1..3 |-> v] IN
          SetterStep("set_vec3", name, value, set_vec3(unwrap(material), name, value))

SetVec4 ==
    /\ ~Panicked /\ is_some(material)
    /\ \E name \in SetterNames, v \in args.vectors :
          LET value == [i \in 1..4 |-> v] IN
          SetterStep("set_vec4", name, value, set_vec4(unwrap(material), name, value))

SetMat3 ==
    /\ ~Panicked /\ is_some(material)
    /\ \E name \in SetterNames, v \in args.vectors :
          LET value == [i \in 1..9 |-> v] IN
          SetterStep("set_mat3", name, value, set_mat3(unwrap(material), name, value))

SetMat4 ==
    /\ ~Panicked /\ is_some(material)
    /\ \E name \in SetterNames, v \in args.vectors :
          LET value == [i \in 1..16 |-> v] IN
          SetterStep("set_mat4", name, value, set_mat4(unwrap(material), name, value))

(* The textures set_texture is called with: a caller's 1x1 2D image, the 3D
   placeholder and the cube placeholder. *)
UserTextures ==
    {from_bytes_2d(<<255, 0, 0, 255>>, 1, 1, "Rgba8UnormSrgb", FALSE, "GLTF Texture 2D"),
     black1x1x1, default_cube}

TextureNames == {"t", "u", "v", "missing_tex"}

SetTexture ==
    /\ ~Panicked /\ is_some(material)
    /\ \E name \in TextureNames, value \in UserTextures :
          /\ material' = Some(set_texture(unwrap(material), name, value))
          /\ last' = Call("set_texture", name, <<>>, Some(value), <<>>, "ok")
    /\ history' = [history EXCEPT !.texture_set = TRUE]
    /\ UNCHANGED <<submitted, input, engine, render_pipelines, frame, error, desc, args, shader, buffers, next_buffer, pending>>

(* The caller passes shader.bind_group_layout.as_ref().unwrap() as layout. *)
MaterialBuild ==
    /\ ~Panicked /\ is_some(material) /\ is_some(shader)
    /\ is_some(unwrap(shader).bind_group_layout)
    /\ next_buffer <= MaxBuffers
    /\ LET mat == unwrap(material) IN
       /\ material' = Some(Material_build(mat, next_buffer,
                                          unwrap(unwrap(shader).bind_group_layout)))
       /\ buffers' = insert(drop_buffer(buffers, mat.uniform_buffer),
                            next_buffer, mat.uniform_bytes)
       /\ next_buffer' = next_buffer + 1
       /\ last' = Call("Material::build", mat.name, <<>>, None, <<>>, "ok")
       /\ history' = [history EXCEPT !.pushed = mat.uniform_bytes]
    /\ UNCHANGED <<submitted, input, engine, render_pipelines, frame, error, desc, args, shader, pending>>

MaterialUpdate ==
    /\ ~Panicked /\ is_some(material)
    /\ LET mat == unwrap(material) IN
       IF is_none(mat.uniform_buffer)
       THEN /\ last' = Call("Material::update", mat.name, <<>>, None, <<>>, "panic")
            /\ UNCHANGED <<pending, history>>
       ELSE /\ Len(pending) < MaxPending
            /\ pending' = write_buffer(pending, unwrap(mat.uniform_buffer), 0, mat.uniform_bytes)
            /\ last' = Call("Material::update", mat.name, <<>>, None, <<>>, "ok")
            /\ history' = [history EXCEPT !.pushed = mat.uniform_bytes]
    /\ UNCHANGED <<submitted, input, engine, render_pipelines, frame, error, desc, args, shader, material, buffers, next_buffer>>

(* queue.submit: the queued writes land, then the commands run. *)
QueueSubmit ==
    /\ ~Panicked
    /\ pending # <<>>
    /\ buffers' = apply_writes(buffers, pending)
    /\ pending' = <<>>
    /\ last' = Call("Queue::submit", "", <<>>, None, <<>>, "ok")
    /\ UNCHANGED <<submitted, input, engine, render_pipelines, frame, error, desc, args, shader, material, next_buffer, history>>

----------------------------------------------------------------------------
(* Shader descriptions, as the parser hands them to Shader::new.           *)

UniformEntries == [name : {"a", "b", "c"}, ty : UniformProperty]

TextureTypes == {Texture2D("white"), Texture2D("normal"), Texture3D, TextureCube}

TextureEntries == [name : {"t", "u", "v"}, ty : TextureTypes]

U(ty, name) == [name |-> name, ty |-> ty]

GoodSubShaders ==
    [tag \in {"ForwardBase", "ForwardAdd"} |-> SubShader_new(tag, SubShaderOption_default, "pbr.vert", "pbr.frag", EmptyMap)]

BrokenSubShaders ==
    [tag \in {"ForwardBase", "ForwardAdd"} |->
        SubShader_new(tag, SubShaderOption_default, "pbr.vert",
                      IF tag = "ForwardAdd" THEN "broken.frag" ELSE "pbr.frag", EmptyMap)]

Descriptions(uniform_lists, texture_lists, sub_shader_maps) ==
    [name : {"PBR"}, uniform_properties : uniform_lists,
     texture_properties : texture_lists, sub_shaders : sub_shader_maps]

(* The uniform blocks materials are exercised on. *)
UniformCatalogue ==
    {<<>>,
     <<U("Vec4", "a")>>,
     <<U("Vec3", "a"), U("Float", "b")>>,
     <<U("Float", "a"), U("Vec2", "b")>>,
     <<U("Float", "a"), U("Float", "a")>>,
     <<U("Mat3", "a")>>,
     <<U("Mat4", "a")>>}

(* The texture property lists materials are exercised on. *)
TextureCatalogue ==
    {<<>>,
     <<U(Texture2D("white"), "t")>>,
     <<U(Texture2D("black"), "t"), U(Texture2D("gray"), "u")>>,
     <<U(Texture2D("grey"), "t"), U(Texture2D("normal"), "u")>>,
     <<U(Texture3D, "t"), U(TextureCube, "u")>>,
     <<U(Texture2D("white"), "t"), U(Texture2D("black"), "t")>>}

InitRest ==
    /\ shader = None
    /\ material = None
    /\ buffers = EmptyMap
    /\ next_buffer = 1
    /\ pending = <<>>
    /\ last = NoCall
    /\ history = NoHistory
    /\ input = None
    /\ engine = None
    /\ render_pipelines = EmptyMap
    /\ frame = <<>>
    /\ submitted = <<>>
    /\ error = None

(* Layout: Shader::new and Shader::build over every bounded description. *)
LayoutInit ==
    /\ desc \in Descriptions(SeqsUpTo(UniformEntries, MaxProps), {<<>>}, {GoodSubShaders})
                \cup Descriptions({<<>>}, SeqsUpTo(TextureEntries, MaxTex), {GoodSubShaders})
    /\ args = [floats |-> {}, vectors |-> {}]
    /\ InitRest

LayoutNext == ShaderNew \/ ShaderBuild

LayoutSpec == LayoutInit /\ [][LayoutNext]_vars

(* Textures: a material's textures and bind group. *)
TextureInit ==
    /\ desc \in Descriptions({<<U("Vec4", "a")>>}, TextureCatalogue, {GoodSubShaders})
                \cup Descriptions({<<U("Vec4", "a")>>}, {<<U(Texture2D("white"), "t")>>},
                                  {BrokenSubShaders})
    /\ args = [floats |-> {}, vectors |-> {}]
    /\ InitRest

TextureNext == ShaderNew \/ ShaderBuild \/ FromShader \/ SetTexture \/ MaterialBuild

TextureSpec == TextureInit /\ [][TextureNext]_vars

(* Queue: a material's uniform bytes against its GPU buffer. *)
QueueInit ==
    /\ desc \in Descriptions({<<U("Float", "a"), U("Vec2", "b")>>},
                             {<<U(Texture2D("white"), "t")>>}, {GoodSubShaders})
    /\ args = [floats |-> {F32_1_0}, vectors |-> {F32_1_0}]
    /\ InitRest

QueueNext ==
    \/ ShaderNew
    \/ ShaderBuild
    \/ FromShader
    \/ SetFloat
    \/ SetVec2
    \/ SetVec3
    \/ SetVec4
    \/ SetMat3
    \/ SetMat4
    \/ MaterialBuild
    \/ MaterialUpdate
    \/ QueueSubmit

QueueSpec == QueueInit /\ [][QueueNext]_vars

(* Uniforms: a material's uniform bytes under the typed setters. *)
Init ==
    /\ desc \in Descriptions(UniformCatalogue, {<<U(Texture2D("white"), "t")>>},
                             {GoodSubShaders})
                \cup Descriptions({<<U("Vec4", "a")>>}, {<<U(Texture2D("white"), "t")>>},
                                  {BrokenSubShaders})
    /\ args = [floats |-> {F32_1_0, F32_0_5}, vectors |-> {F32_1_0}]
    /\ InitRest

Next ==
    \/ ShaderNew
    \/ ShaderBuild
    \/ FromShader
    \/ SetFloat
    \/ SetVec2
    \/ SetVec3
    \/ SetVec4
    \/ SetMat3
    \/ SetMat4
    \/ MaterialBuild

Spec == Init /\ [][Next]_vars

----------------------------------------------------------------------------
(* serde_json::Value: t names the variant, the field of that variant holds *)
(* its content and the other fields are empty.                             *)

JNull == [t |-> "null", s |-> "", n |-> 0, b |-> FALSE, a |-> <<>>, o |-> EmptyMap]
JStr(str) == [JNull EXCEPT !.t = "string", !.s = str]
JNum(num) == [JNull EXCEPT !.t = "number", !.n = num]
JBool(bool) == [JNull EXCEPT !.t = "bool", !.b = bool]
JArr(items) == [JNull EXCEPT !.t = "array", !.a = items]
JObj(fields) == [JNull EXCEPT !.t = "object", !.o = fields]

as_str(value) == IF value.t = "string" THEN Some(value.s) ELSE None
as_u64(value) == IF value.t = "number" /\ value.n >= 0 THEN Some(value.n) ELSE None
as_bool(value) == IF value.t = "bool" THEN Some(value.b) ELSE None
as_array(value) == IF value.t = "array" THEN Some(value.a) ELSE None
as_object(value) == IF value.t = "object" THEN Some(value.o) ELSE None

(* value.get(key): None unless value is an object holding key. *)
get(value, key) ==
    IF value.t = "object" /\ key \in DOMAIN value.o THEN Some(value.o[key]) ELSE None

(* value[key]: Null where get gives None. *)
index(value, key) == IF is_some(get(value, key)) THEN unwrap(get(value, key)) ELSE JNull

(* Result<T, ShaderParseError>, and the two ways a call does not return:   *)
(* a panic, and a recursion that never ends.                               *)
Ok(x) == [kind |-> "ok", value |-> <<x>>, parse_error |-> ""]
Err(parse_error) == [kind |-> "err", value |-> <<>>, parse_error |-> parse_error]
Panic == [kind |-> "panic", value |-> <<>>, parse_error |-> ""]
Overflow == [kind |-> "overflow", value |-> <<>>, parse_error |-> ""]

(* Lines 289-293: Display of a ShaderParseError. *)
fmt(parse_error) == "Shader parse error: " \o parse_error

(* Lines 492-508: TryFrom<String> for UniformProperty. *)
UniformProperty_try_from(value) ==
    CASE value = "float" -> Ok("Float")
      [] value = "vec2" -> Ok("Vec2")
      [] value = "vec3" -> Ok("Vec3")
      [] value = "vec4" -> Ok("Vec4")
      [] value = "mat3" -> Ok("Mat3")
      [] value = "mat4" -> Ok("Mat4")
      [] OTHER -> Err("Unknown uniform property '" \o value \o "'")

(* Lines 510-523: TryFrom<String> for TextureProperty. *)
TextureProperty_try_from(value) ==
    CASE value = "2D" -> Ok(Texture2D(""))
      [] value = "3D" -> Ok(Texture3D)
      [] value = "Cube" -> Ok(TextureCube)
      [] OTHER -> Err("Unknown texture property '" \o value \o "'")

(* A parser of blend factors that takes the factors of one minus a colour  *)
(* for those of one minus an alpha.                                        *)
blend_factor_colour_as_alpha(str) ==
    CASE str = "one" -> Ok("One")
      [] str = "zero" -> Ok("Zero")
      [] str = "src_alpha" -> Ok("SrcAlpha")
      [] str = "src_color" -> Ok("SrcColor")
      [] str = "one_minus_src_alpha" -> Ok("OneMinusSrcAlpha")
      [] str = "one_minus_src_color" -> Ok("OneMinusSrcAlpha")
      [] str = "dst_alpha" -> Ok("DstAlpha")
      [] str = "dst_color" -> Ok("DstColor")
      [] str = "one_minus_dst_alpha" -> Ok("OneMinusDstAlpha")
      [] str = "one_minus_dst_color" -> Ok("OneMinusDstAlpha")
      [] OTHER -> Err("Unknown blend factor '" \o str \o "'")

(* Lines 579-595. *)
blend_factor_from_str(str) ==
    CASE str = "one" -> Ok("One")
      [] str = "zero" -> Ok("Zero")
      [] str = "src_alpha" -> Ok("SrcAlpha")
      [] str = "src_color" -> Ok("SrcColor")
      [] str = "one_minus_src_alpha" -> Ok("OneMinusSrcAlpha")
      [] str = "one_minus_src_color" -> Ok("OneMinusSrcColor")
      [] str = "dst_alpha" -> Ok("DstAlpha")
      [] str = "dst_color" -> Ok("DstColor")
      [] str = "one_minus_dst_alpha" -> Ok("OneMinusDstAlpha")
      [] str = "one_minus_dst_color" -> Ok("OneMinusDstColor")
      [] OTHER -> Err("Unknown blend factor '" \o str \o "'")

(* A parser of blend operations that takes an unknown word for "add". *)
blend_op_or_add(str) ==
    CASE str = "max" -> Ok("Max")
      [] str = "min" -> Ok("Min")
      [] str = "sub" -> Ok("Subtract")
      [] str = "rsub" -> Ok("ReverseSubtract")
      [] OTHER -> Ok("Add")

(* Lines 597-608. *)
blend_op_from_str(str) ==
    CASE str = "add" -> Ok("Add")
      [] str = "max" -> Ok("Max")
      [] str = "min" -> Ok("Min")
      [] str = "sub" -> Ok("Subtract")
      [] str = "rsub" -> Ok("ReverseSubtract")
      [] OTHER -> Err("Unknown blend operation '" \o str \o "'")

(* Lines 610-624. *)
compare_func_from_str(str) ==
    CASE str = "always" -> Ok("Always")
      [] str = "never" -> Ok("Never")
      [] str = "equal" -> Ok("Equal")
      [] str = "nequal" -> Ok("NotEqual")
      [] str = "less" -> Ok("Less")
      [] str = "lequal" -> Ok("LessEqual")
      [] str = "greater" -> Ok("Greater")
      [] str = "gequal" -> Ok("GreaterEqual")
      [] OTHER -> Err("Unknown compare function '" \o str \o "'")

(* Lines 626-630: todo!() panics whatever the value. *)
stencil_face_state_from_json(value) == Panic

(* Lines 390-401: cull.  Every step of the option parser takes the result  *)
(* of the steps before it: an error or a panic there ends the function.    *)
option_cull(value, r) ==
    IF r.kind # "ok" \/ is_none(get(value, "cull")) THEN r
    ELSE LET cull == as_str(unwrap(get(value, "cull"))) IN
         IF is_none(cull) THEN Panic
         ELSE CASE unwrap(cull) = "front" -> Ok([r.value[1] EXCEPT !.cull_mode = "Front"])
                [] unwrap(cull) = "back" -> Ok([r.value[1] EXCEPT !.cull_mode = "Back"])
                [] unwrap(cull) = "none" -> Ok([r.value[1] EXCEPT !.cull_mode = "None"])
                [] OTHER -> Err("Unknown cull value: '" \o unwrap(cull) \o "'")

(* Lines 402-413: front_face. *)
option_front_face(value, r) ==
    IF r.kind # "ok" \/ is_none(get(value, "front_face")) THEN r
    ELSE LET front == as_str(unwrap(get(value, "front_face"))) IN
         IF is_none(front) THEN Panic
         ELSE CASE unwrap(front) = "ccw" -> Ok([r.value[1] EXCEPT !.front_face = "Ccw"])
                [] unwrap(front) = "cw" -> Ok([r.value[1] EXCEPT !.front_face = "Cw"])
                [] OTHER -> Err("Unknown front face value: '" \o unwrap(front) \o "'")

(* Lines 417-431: the loop over the channels of write_mask; option holds   *)
(* the mask gathered so far, which is stored when the loop is over.        *)
RECURSIVE write_mask_loop(_, _, _)
write_mask_loop(write_mask, i, option) ==
    IF i > Len(write_mask) THEN Ok(option)
    ELSE LET ch == as_str(write_mask[i]) IN
         IF is_none(ch) THEN Panic
         ELSE CASE unwrap(ch) = "R" ->
                       write_mask_loop(write_mask, i + 1,
                                       [option EXCEPT !.write_mask = @ \cup {"RED"}])
                [] unwrap(ch) = "G" ->
                       write_mask_loop(write_mask, i + 1,
                                       [option EXCEPT !.write_mask = @ \cup {"GREEN"}])
                [] unwrap(ch) = "B" ->
                       write_mask_loop(write_mask, i + 1,
                                       [option EXCEPT !.write_mask = @ \cup {"BLUE"}])
                [] unwrap(ch) = "A" ->
                       write_mask_loop(write_mask, i + 1,
                                       [option EXCEPT !.write_mask = @ \cup {"ALPHA"}])
                [] OTHER -> Err("Unknown color write mask value: '" \o unwrap(ch) \o "'")

(* Lines 414-432: write_mask; the mask starts empty. *)
option_write_mask(value, r) ==
    IF r.kind # "ok" \/ is_none(get(value, "write_mask")) THEN r
    ELSE IF is_none(as_array(unwrap(get(value, "write_mask")))) THEN Panic
    ELSE write_mask_loop(unwrap(as_array(unwrap(get(value, "write_mask")))), 1,
                         [r.value[1] EXCEPT !.write_mask = {}])

(* Lines 436-459: the six keys of blend in the order they are read, with   *)
(* the equation and the field each one sets.                               *)
blend_keys ==
    <<[key |-> "op", state |-> "color_blend", field |-> "operation"],
      [key |-> "src", state |-> "color_blend", field |-> "src_factor"],
      [key |-> "dst", state |-> "color_blend", field |-> "dst_factor"],
      [key |-> "op_alpha", state |-> "alpha_blend", field |-> "operation"],
      [key |-> "src_alpha", state |-> "alpha_blend", field |-> "src_factor"],
      [key |-> "dst_alpha", state |-> "alpha_blend", field |-> "dst_factor"]>>

(* The parser of one key of blend. *)
blend_from_str(field, str) ==
    IF is_none(str) THEN Panic
    ELSE IF field = "operation" THEN blend_op_from_str(unwrap(str))
    ELSE blend_factor_from_str(unwrap(str))

RECURSIVE blend_loop(_, _, _)

(* One key of blend: parsed is what its parser gave. *)
blend_step(blend, i, option, parsed) ==
    IF parsed.kind # "ok" THEN parsed
    ELSE blend_loop(blend, i + 1,
                    [option EXCEPT ![blend_keys[i].state][blend_keys[i].field] =
                                       parsed.value[1]])

(* Lines 436-461: the keys of blend; option holds the two equations read   *)
(* so far, which are stored when all keys are read.                        *)
blend_loop(blend, i, option) ==
    IF i > Len(blend_keys) THEN Ok(option)
    ELSE IF is_none(get(blend, blend_keys[i].key)) THEN blend_loop(blend, i + 1, option)
    ELSE blend_step(blend, i, option,
                    blend_from_str(blend_keys[i].field,
                                   as_str(unwrap(get(blend, blend_keys[i].key)))))

(* Lines 433-462: blend; both equations start from BlendState::default(). *)
option_blend(value, r) ==
    IF r.kind # "ok" \/ is_none(get(value, "blend")) THEN r
    ELSE blend_loop(unwrap(get(value, "blend")), 1,
                    [r.value[1] EXCEPT !.color_blend = BlendState_REPLACE,
                                       !.alpha_blend = BlendState_REPLACE])

(* Lines 463-466: depth_write. *)
option_depth_write(value, r) ==
    IF r.kind # "ok" \/ is_none(get(value, "depth_write")) THEN r
    ELSE LET depth_write == as_bool(unwrap(get(value, "depth_write"))) IN
         IF is_none(depth_write) THEN Panic
         ELSE Ok([r.value[1] EXCEPT !.depth_write = unwrap(depth_write)])

(* Lines 467-470: depth_compare. *)
option_depth_compare(value, r) ==
    IF r.kind # "ok" \/ is_none(get(value, "depth_compare")) THEN r
    ELSE LET depth_cmp == as_str(unwrap(get(value, "depth_compare"))) IN
         IF is_none(depth_cmp) THEN Panic
         ELSE LET compare == compare_func_from_str(unwrap(depth_cmp)) IN
              IF compare.kind # "ok" THEN compare
              ELSE Ok([r.value[1] EXCEPT !.depth_compare = compare.value[1]])

(* Lines 473-478: one mask of stencil, left alone where the key is absent; *)
(* `as u32` keeps a number below 2^32 as it is.                            *)
stencil_mask(stencil, key, r) ==
    IF r.kind # "ok" \/ is_none(get(stencil, key)) THEN r
    ELSE LET mask == as_u64(unwrap(get(stencil, key))) IN
         IF is_none(mask) THEN Panic
         ELSE Ok([r.value[1] EXCEPT !.stencil[key] = unwrap(mask)])

(* Lines 479-484: one face of stencil, left alone where the key is absent. *)
stencil_face(stencil, key, r) ==
    IF r.kind # "ok" \/ is_none(get(stencil, key)) THEN r
    ELSE LET face == stencil_face_state_from_json(unwrap(get(stencil, key))) IN
         IF face.kind # "ok" THEN face
         ELSE Ok([r.value[1] EXCEPT !.stencil[key] = face.value[1]])

(* Lines 471-487: stencil, from StencilState::default(); the masks, then   *)
(* the front face, then the back.                                          *)
option_stencil(value, r) ==
    IF r.kind # "ok" \/ is_none(get(value, "stencil")) THEN r
    ELSE stencil_face(unwrap(get(value, "stencil")), "back",
         stencil_face(unwrap(get(value, "stencil")), "front",
         stencil_mask(unwrap(get(value, "stencil")), "write_mask",
         stencil_mask(unwrap(get(value, "stencil")), "read_mask",
                      Ok([r.value[1] EXCEPT !.stencil = StencilState_default])))))

(* Lines 384-490: TryFrom<&serde_json::Value> for SubShaderOption: the     *)
(* keys are read in this order, innermost first.                           *)
SubShaderOption_try_from(value) ==
    option_stencil(value,
    option_depth_compare(value,
    option_depth_write(value,
    option_blend(value,
    option_write_mask(value,
    option_front_face(value,
    option_cull(value, Ok(SubShaderOption_default))))))))

(* prop[i] on a Vec<Value>, 0-based: out of bounds panics. *)
vec_index(vec, i) == IF i + 1 <= Len(vec) THEN Some(vec[i + 1]) ELSE None

(* prop[i].as_str(): None also where prop[i] panics. *)
vec_str(vec, i) ==
    IF is_none(vec_index(vec, i)) THEN None ELSE as_str(unwrap(vec_index(vec, i)))

(* Lines 321-328: the loop over uniform_properties. *)
RECURSIVE uniform_properties_loop(_, _, _)
uniform_properties_loop(arr, i, uniform_properties) ==
    IF i > Len(arr) THEN Ok(uniform_properties)
    ELSE LET prop == as_array(arr[i]) IN
         IF is_none(prop) THEN Panic
         ELSE IF is_none(vec_str(unwrap(prop), 1)) THEN Panic
         ELSE IF is_none(vec_str(unwrap(prop), 0)) THEN Panic
         ELSE LET ty == UniformProperty_try_from(unwrap(vec_str(unwrap(prop), 0))) IN
              IF ty.kind # "ok" THEN ty
              ELSE uniform_properties_loop(arr, i + 1,
                       Append(uniform_properties,
                              [name |-> unwrap(vec_str(unwrap(prop), 1)), ty |-> ty.value[1]]))

TextureDefaults == {"white", "black", "normal", "gray", "grey"}

(* Lines 337-343: a 2D property reads its default, the others are done. *)
texture_with_default(prop, ty) ==
    IF ty.kind # "ok" THEN ty
    ELSE IF ty.value[1].kind # "Texture2D" THEN ty
    ELSE IF is_none(vec_str(prop, 2)) THEN Panic
    ELSE IF unwrap(vec_str(prop, 2)) \in TextureDefaults
    THEN Ok(Texture2D(unwrap(vec_str(prop, 2))))
    ELSE Err("Unknown texture2D default value '" \o unwrap(vec_str(prop, 2)) \o "'")

RECURSIVE texture_properties_loop(_, _, _)

(* Line 344: the property is pushed. *)
texture_properties_step(arr, i, texture_properties, name, ty) ==
    IF ty.kind # "ok" THEN ty
    ELSE texture_properties_loop(arr, i + 1,
             Append(texture_properties, [name |-> name, ty |-> ty.value[1]]))

(* Lines 332-345: the loop over texture_properties. *)
texture_properties_loop(arr, i, texture_properties) ==
    IF i > Len(arr) THEN Ok(texture_properties)
    ELSE LET prop == as_array(arr[i]) IN
         IF is_none(prop) THEN Panic
         ELSE IF is_none(vec_str(unwrap(prop), 1)) THEN Panic
         ELSE IF is_none(vec_str(unwrap(prop), 0)) THEN Panic
         ELSE texture_properties_step(arr, i, texture_properties,
                  unwrap(vec_str(unwrap(prop), 1)),
                  texture_with_default(unwrap(prop),
                      TextureProperty_try_from(unwrap(vec_str(unwrap(prop), 0)))))

(* Lines 354-363: the definition object of a sub-shader. *)
definition_of(sub) ==
    IF is_none(get(sub, "definition")) THEN Ok(EmptyMap)
    ELSE LET definition == as_object(unwrap(get(sub, "definition"))) IN
         IF is_none(definition) THEN Panic
         ELSE Ok([k \in DOMAIN unwrap(definition) |-> as_str(unwrap(definition)[k])])

RECURSIVE sub_shaders_loop(_, _, _)

(* Lines 364-373: the options are parsed and the sub-shader is inserted    *)
(* under its tag.                                                          *)
sub_shaders_step(arr, i, sub_shaders, tag, vs_file, fs_file, shader_definition, option) ==
    IF is_none(tag) \/ is_none(vs_file) \/ is_none(fs_file) THEN Panic
    ELSE IF shader_definition.kind # "ok" THEN shader_definition
    ELSE IF option.kind # "ok" THEN option
    ELSE sub_shaders_loop(arr, i + 1,
             insert(sub_shaders, unwrap(tag),
                    SubShader_new(unwrap(tag), option.value[1], unwrap(vs_file),
                                  unwrap(fs_file), shader_definition.value[1])))

(* Lines 349-374: the loop over subshaders. *)
sub_shaders_loop(arr, i, sub_shaders) ==
    IF i > Len(arr) THEN Ok(sub_shaders)
    ELSE sub_shaders_step(arr, i, sub_shaders,
                          as_str(index(arr[i], "tag")), as_str(index(arr[i], "vs")),
                          as_str(index(arr[i], "fs")), definition_of(arr[i]),
                          SubShaderOption_try_from(arr[i]))

(* Lines 319-381: the parts of a description in the order they are read:  *)
(* each array is unwrapped, then its loop runs.                            *)
shader_from_parts(name, uniform_properties_arr, uniform_properties, texture_properties_arr, texture_properties, sub_shaders_arr, sub_shaders) ==
    IF is_none(name) \/ is_none(uniform_properties_arr) THEN Panic
    ELSE IF uniform_properties.kind # "ok" THEN uniform_properties
    ELSE IF is_none(texture_properties_arr) THEN Panic
    ELSE IF texture_properties.kind # "ok" THEN texture_properties
    ELSE IF is_none(sub_shaders_arr) THEN Panic
    ELSE IF sub_shaders.kind # "ok" THEN sub_shaders
    ELSE Ok(Shader_new(unwrap(name), uniform_properties.value[1],
                       texture_properties.value[1], sub_shaders.value[1]))

(* Lines 319-381: an inline description. *)
Shader_from_object(value) ==
    shader_from_parts(
        as_str(index(value, "name")),
        as_array(index(value, "uniform_properties")),
        uniform_properties_loop(unwrap(as_array(index(value, "uniform_properties"))), 1, <<>>),
        as_array(index(value, "texture_properties")),
        texture_properties_loop(unwrap(as_array(index(value, "texture_properties"))), 1, <<>>),
        as_array(index(value, "subshaders")),
        sub_shaders_loop(unwrap(as_array(index(value, "subshaders"))), 1, EmptyMap))

(* Lines 305-317: the content of the file at path. *)
read_file(path, files) ==
    IF path \notin DOMAIN files THEN Err("Can't open shader json file '" \o path \o "'")
    ELSE IF is_none(files[path]) THEN Err("Can't parse shader json file '" \o path \o "'")
    ELSE Ok(unwrap(files[path]))

RECURSIVE Shader_try_from(_, _, _)

(* Line 317: try_from is called on the content of the file. *)
shader_from_file(path, json_value, files, seen) ==
    IF json_value.kind # "ok" THEN json_value
    ELSE IF path \in seen THEN Overflow
    ELSE Shader_try_from(json_value.value[1], files, seen \cup {path})

(* Lines 301-382: TryFrom<&serde_json::Value> for Shader.  A string is a   *)
(* path: the file is read and try_from is called on its content, whatever  *)
(* that is.  files maps the paths that open to their content, None where   *)
(* the content is not JSON.  A path met again in `seen` means the same     *)
(* call is made again without end: the stack overflows.                    *)
Shader_try_from(value, files, seen) ==
    IF is_some(as_str(value))
    THEN shader_from_file(unwrap(as_str(value)), read_file(unwrap(as_str(value)), files),
                          files, seen)
    ELSE Shader_from_object(value)

----------------------------------------------------------------------------
(* Pipelines: SubShader::render_pipeline and the layouts of GraphicsState. *)

(* graphics.rs, lines 58-97: the layouts GraphicsState::new creates. *)
bind_group_layouts ==
    [key \in {"_Object", "_Light", "_Camera", "_Scene"} |->
        CASE key = "_Object" ->
               [label |-> "Object Bind Group Layout",
                entries |-> <<uniform_bind_group_entry(0)>>]
          [] key = "_Light" ->
               [label |-> "Light Bind Group Layout",
                entries |-> <<uniform_bind_group_entry(0)>>]
          [] key = "_Camera" ->
               [label |-> "Camera Bind Group Layout",
                entries |-> <<uniform_bind_group_entry(0)>>]
          [] key = "_Scene" ->
               [label |-> "Scene Bind Group Layout",
                entries |-> <<texture_bind_group_entry(0, "Cube"), sampler_bind_group_entry(1),
                              texture_bind_group_entry(2, "Cube"), sampler_bind_group_entry(3),
                              texture_bind_group_entry(4, "Cube"), sampler_bind_group_entry(5),
                              texture_bind_group_entry(6, "D2"), sampler_bind_group_entry(7)>>]]

(* A render_pipeline that takes the layout and the modules as they are,    *)
(* built or not.                                                           *)
render_pipeline_unchecked(sub, sh, color_format, depth_stencil_format, object_bind_group_layout, camera_bind_group_layout, light_bind_group_layout, scene_bind_group_layout) ==
    [result |-> "ok",
     pipeline |-> Some(
        [label |-> sh.name \o "-" \o sub.tag \o " Render Pipeline",
         layout |-> <<sh.bind_group_layout, object_bind_group_layout,
                      camera_bind_group_layout, light_bind_group_layout>>,
         vertex |-> sub.vs_module,
         fragment |-> [module |-> sub.fs_module,
                       target |-> [format |-> color_format,
                                   alpha_blend |-> sub.options.alpha_blend,
                                   color_blend |-> sub.options.color_blend,
                                   write_mask |-> sub.options.write_mask]],
         primitive |-> [front_face |-> sub.options.front_face,
                        cull_mode |-> sub.options.cull_mode],
         depth_stencil |-> [format |-> depth_stencil_format,
                            depth_write_enabled |-> sub.options.depth_write,
                            depth_compare |-> sub.options.depth_compare,
                            stencil |-> sub.options.stencil]])]

(* shader.rs, lines 197-258: the three unwrap() calls panic on None, in    *)
(* the order layout, vertex module, fragment module.                       *)
render_pipeline(sub, sh, color_format, depth_stencil_format, object_bind_group_layout, camera_bind_group_layout, light_bind_group_layout, scene_bind_group_layout) ==
    IF is_none(sh.bind_group_layout) \/ is_none(sub.vs_module) \/ is_none(sub.fs_module)
    THEN [result |-> "panic", pipeline |-> None]
    ELSE [result |-> "ok",
          pipeline |-> Some(
             [label |-> sh.name \o "-" \o sub.tag \o " Render Pipeline",
              layout |-> <<unwrap(sh.bind_group_layout), object_bind_group_layout,
                           camera_bind_group_layout, light_bind_group_layout>>,
              vertex |-> unwrap(sub.vs_module),
              fragment |-> [module |-> unwrap(sub.fs_module),
                            target |-> [format |-> color_format,
                                        alpha_blend |-> sub.options.alpha_blend,
                                        color_blend |-> sub.options.color_blend,
                                        write_mask |-> sub.options.write_mask]],
              primitive |-> [front_face |-> sub.options.front_face,
                             cull_mode |-> sub.options.cull_mode],
              depth_stencil |-> [format |-> depth_stencil_format,
                                 depth_write_enabled |-> sub.options.depth_write,
                                 depth_compare |-> sub.options.depth_compare,
                                 stencil |-> sub.options.stencil]])]

(* engine.rs, lines 185-194: the call load_shaders makes for one pass. *)
pipeline_of(sub, sh) ==
    render_pipeline(sub, sh, "Bgra8UnormSrgb", "Depth24PlusStencil8",
                    bind_group_layouts["_Object"], bind_group_layouts["_Light"],
                    bind_group_layouts["_Camera"], bind_group_layouts["_Scene"])

(* A key that leaves the tag out. *)
pipeline_key_of_shader(shader_name, sub_shader_tag) == shader_name

(* engine.rs, line 196: the key of a pass's pipeline. *)
pipeline_key(shader_name, sub_shader_tag) == shader_name \o "-" \o sub_shader_tag

(* One pass of the loop of lines 184-199, for the shader at hand. *)
RenderPipeline ==
    /\ ~Panicked /\ is_some(shader)
    /\ \E tag \in DOMAIN unwrap(shader).sub_shaders :
          LET sh == unwrap(shader)
              r == pipeline_of(sh.sub_shaders[tag], sh) IN
          /\ render_pipelines' =
                IF r.result = "ok"
                THEN insert(render_pipelines, pipeline_key(sh.name, tag), unwrap(r.pipeline))
                ELSE render_pipelines
          /\ last' = Call("SubShader::render_pipeline", tag, <<>>, None, <<>>, r.result)
    /\ UNCHANGED <<submitted, input, engine, frame, error, desc, args, shader, material, buffers,
                   next_buffer, pending, history>>

(* Lifecycle: building, updating and pipelines in any order. *)
LifecycleInit ==
    /\ desc \in Descriptions({<<U("Float", "a")>>}, {<<U(Texture2D("white"), "t")>>},
                             {GoodSubShaders, BrokenSubShaders})
    /\ args = [floats |-> {F32_1_0}, vectors |-> {}]
    /\ InitRest

LifecycleNext ==
    \/ ShaderNew
    \/ ShaderBuild
    \/ FromShader
    \/ SetFloat
    \/ MaterialBuild
    \/ MaterialUpdate
    \/ QueueSubmit
    \/ RenderPipeline

LifecycleSpec == LifecycleInit /\ [][LifecycleNext]_vars

----------------------------------------------------------------------------
(* Parsing: descriptions as the shader file gives them.                    *)

(* The object with the given <<key, value>> pairs. *)
Object(pairs) ==
    JObj([k \in {pairs[i][1] : i \in DOMAIN pairs} |->
             pairs[CHOOSE i \in DOMAIN pairs : pairs[i][1] = k][2]])

with(object, key, value) ==
    JObj([k \in DOMAIN object.o \cup {key} |-> IF k = key THEN value ELSE object.o[k]])

without(object, key) == JObj([k \in DOMAIN object.o \ {key} |-> object.o[k]])

BaseSub(tag) ==
    Object(<<<<"tag", JStr(tag)>>, <<"vs", JStr("pbr.vert")>>, <<"fs", JStr("pbr.frag")>>>>)

BaseDescription ==
    Object(<<<<"name", JStr("PBR")>>,
             <<"uniform_properties", JArr(<<JArr(<<JStr("vec4"), JStr("a")>>)>>)>>,
             <<"texture_properties",
               JArr(<<JArr(<<JStr("2D"), JStr("t"), JStr("white")>>)>>)>>,
             <<"subshaders", JArr(<<BaseSub("ForwardBase"), BaseSub("ForwardAdd")>>)>>>>)

(* The keywords the description format knows, by the place they stand in.  *)
CullWords == {"front", "back", "none"}
FrontFaceWords == {"cw", "ccw"}
ChannelWords == {"R", "G", "B", "A"}
BlendOpWords == {"add", "sub", "rsub", "min", "max"}
BlendFactorWords ==
    {"one", "zero", "src_alpha", "src_color", "one_minus_src_alpha", "one_minus_src_color",
     "dst_alpha", "dst_color", "one_minus_dst_alpha", "one_minus_dst_color"}
CompareWords ==
    {"always", "never", "equal", "nequal", "less", "lequal", "greater", "gequal"}
UniformTypeWords == {"float", "vec2", "vec3", "vec4", "mat3", "mat4"}
TextureTypeWords == {"2D", "3D", "Cube"}

(* Strings that are no keyword anywhere: one is the name of a wgpu value. *)
UnknownWords == {"bogus", "Add"}

OptionSlots ==
    {[path |-> <<"cull">>, words |-> CullWords],
     [path |-> <<"front_face">>, words |-> FrontFaceWords],
     [path |-> <<"write_mask">>, words |-> ChannelWords],
     [path |-> <<"blend", "op">>, words |-> BlendOpWords],
     [path |-> <<"blend", "op_alpha">>, words |-> BlendOpWords],
     [path |-> <<"blend", "src">>, words |-> BlendFactorWords],
     [path |-> <<"blend", "dst">>, words |-> BlendFactorWords],
     [path |-> <<"blend", "src_alpha">>, words |-> BlendFactorWords],
     [path |-> <<"blend", "dst_alpha">>, words |-> BlendFactorWords],
     [path |-> <<"depth_compare">>, words |-> CompareWords]}

(* The sub-shader tag with word standing at path. *)
SubWith(tag, path, word) ==
    CASE path = <<"write_mask">> -> with(BaseSub(tag), "write_mask", JArr(<<JStr(word)>>))
      [] Len(path) = 1 -> with(BaseSub(tag), path[1], JStr(word))
      [] OTHER -> with(BaseSub(tag), path[1], Object(<<<<path[2], JStr(word)>>>>))

Inline(value) == [value |-> value, files |-> EmptyMap]

(* Two sub-shaders, each with a word of its own at the same place. *)
KeywordInputs ==
    UNION {{Inline(with(BaseDescription, "subshaders",
                        JArr(<<SubWith("ForwardBase", slot.path, w1),
                               SubWith("ForwardAdd", slot.path, w2)>>))) :
               w1, w2 \in slot.words \cup UnknownWords} : slot \in OptionSlots}

(* cull, blend and depth state given together. *)
FullSub(tag) ==
    Object(<<<<"tag", JStr(tag)>>, <<"vs", JStr("pbr.vert")>>, <<"fs", JStr("pbr.frag")>>,
             <<"definition", Object(<<<<"USE_IBL", JNull>>, <<"LIGHTS", JStr("4")>>>>)>>,
             <<"cull", JStr("front")>>, <<"front_face", JStr("cw")>>,
             <<"write_mask", JArr(<<JStr("R"), JStr("G")>>)>>,
             <<"blend", Object(<<<<"op", JStr("add")>>, <<"src", JStr("one")>>,
                                 <<"dst", JStr("zero")>>>>)>>,
             <<"depth_write", JBool(FALSE)>>, <<"depth_compare", JStr("lequal")>>>>)

PropertyInputs ==
    {Inline(with(BaseDescription, "uniform_properties",
                 JArr(<<JArr(<<JStr(w), JStr("a")>>), JArr(<<JStr("float"), JStr("b")>>)>>))) :
        w \in UniformTypeWords \cup UnknownWords}
    \cup {Inline(with(BaseDescription, "texture_properties",
                      JArr(<<JArr(<<JStr(w), JStr("t"), JStr(d)>>)>>))) :
             w \in TextureTypeWords \cup UnknownWords, d \in TextureDefaults \cup UnknownWords}
    \cup {Inline(with(BaseDescription, "subshaders", JArr(<<FullSub("ForwardBase")>>)))}

RequiredFields == {"name", "uniform_properties", "texture_properties", "subshaders"}

RequiredSubFields == {"tag", "vs", "fs"}

(* A required field left out, or given as a number. *)
MalformedInputs ==
    {Inline(without(BaseDescription, f)) : f \in RequiredFields}
    \cup {Inline(with(BaseDescription, f, JNum(1))) : f \in RequiredFields}
    \cup {Inline(with(BaseDescription, "subshaders",
                      JArr(<<without(BaseSub("ForwardBase"), f)>>))) : f \in RequiredSubFields}
    \cup {Inline(with(BaseDescription, "subshaders",
                      JArr(<<with(BaseSub("ForwardBase"), f, JNum(1))>>))) :
             f \in RequiredSubFields}
    \cup {Inline(with(BaseDescription, "texture_properties", JArr(<<JArr(prop)>>))) :
             prop \in {<<JStr("2D"), JStr("t")>>, <<JStr("2D"), JStr("t"), JNum(1)>>}}

FaceState ==
    Object(<<<<"compare", JStr("always")>>, <<"fail_op", JStr("keep")>>,
             <<"depth_fail_op", JStr("keep")>>, <<"pass_op", JStr("replace")>>>>)

StencilObjects ==
    {Object(<<<<"read_mask", JNum(1)>>, <<"write_mask", JNum(2)>>>>),
     Object(<<<<"read_mask", JNum(1)>>, <<"write_mask", JNum(2)>>,
              <<"front", FaceState>>, <<"back", FaceState>>>>),
     Object(<<<<"front", FaceState>>>>),
     Object(<<<<"back", FaceState>>>>)}

StencilInputs ==
    {Inline(with(BaseDescription, "subshaders",
                 JArr(<<with(BaseSub("ForwardBase"), "stencil", stencil)>>))) :
        stencil \in StencilObjects}

(* A description given as a path, over the files the path can lead to. *)
PathInputs ==
    {[value |-> JStr("a.json"), files |-> files] :
        files \in {EmptyMap,
                   [path \in {"a.json"} |-> None],
                   [path \in {"a.json"} |-> Some(BaseDescription)],
                   [path \in {"a.json"} |-> Some(JStr("a.json"))],
                   [path \in {"a.json"} |-> Some(JStr("b.json"))],
                   [path \in {"a.json", "b.json"} |->
                       IF path = "a.json" THEN Some(JStr("b.json")) ELSE Some(BaseDescription)],
                   [path \in {"a.json", "b.json"} |->
                       IF path = "a.json" THEN Some(JStr("b.json")) ELSE Some(JStr("a.json"))]}}

(* engine.rs, line 182: shader.try_into() on the value of the shader file. *)
Parse ==
    /\ last = NoCall /\ is_some(input) /\ is_none(shader)
    /\ \E r \in {Shader_try_from(unwrap(input).value, unwrap(input).files, {})} :
       /\ shader' = IF r.kind = "ok" THEN Some(r.value[1]) ELSE None
       /\ error' = IF r.kind = "err" THEN Some([parse_error |-> r.parse_error]) ELSE None
       /\ last' = Call("Shader::try_from", "", <<>>, None, <<>>, r.kind)
    /\ UNCHANGED <<submitted, input, engine, render_pipelines, frame, desc, args, material, buffers,
                   next_buffer, pending, history>>

ParseInit ==
    /\ desc \in Descriptions({<<>>}, {<<>>}, {GoodSubShaders})
    /\ args = [floats |-> {}, vectors |-> {}]
    /\ shader = None
    /\ material = None
    /\ buffers = EmptyMap
    /\ next_buffer = 1
    /\ pending = <<>>
    /\ last = NoCall
    /\ history = NoHistory
    /\ input \in {Some(i) : i \in KeywordInputs \cup PropertyInputs \cup MalformedInputs
                                  \cup StencilInputs \cup PathInputs}
    /\ engine = None
    /\ render_pipelines = EmptyMap
    /\ frame = <<>>
    /\ submitted = <<>>
    /\ error = None

ParseNext == Parse \/ ShaderBuild \/ RenderPipeline

ParseSpec == ParseInit /\ [][ParseNext]_vars

(***************************************************************************)
(* Properties of the uniform layout and the texture indices (LayoutSpec).  *)
(***************************************************************************)
ShaderBuilt == is_some(shader) /\ is_some(unwrap(shader).bind_group_layout)

DistinctNames(properties) ==
    \A i, j \in 1..Len(properties) : properties[i].name = properties[j].name => i = j

(* The smallest multiple of al that is at least n. *)
LeastMultipleAtLeast(n, al) ==
    CHOOSE m \in n..(n + al) : m % al = 0 /\ \A k \in n..(m - 1) : k % al # 0

PackedInOrder(sh) ==
    LET properties == sh.uniform_properties
        offset(i) == sh.uniform_offsets[properties[i].name]
    IN /\ \A i \in 1..Len(properties) : properties[i].name \in DOMAIN sh.uniform_offsets
       /\ Len(properties) >= 1 => offset(1) = 0
       /\ \A i \in 2..Len(properties) :
              offset(i) = LeastMultipleAtLeast(offset(i - 1) + size(properties[i - 1].ty),
                                               align(properties[i].ty))

(* C1, as stated: after Shader::build the first uniform property sits at    *)
(* offset 0 and every later one at the smallest multiple of its align()    *)
(* that is at least the previous offset plus the previous size, for every   *)
(* ordered list of uniform properties.                                      *)
C1_AnyList == ShaderBuilt => PackedInOrder(unwrap(shader))

(* C1, amended: the same packing for every ordered list of uniform          *)
(* properties whose names are pairwise distinct.                            *)
C1_DistinctNames ==
    (ShaderBuilt /\ DistinctNames(unwrap(shader).uniform_properties))
        => PackedInOrder(unwrap(shader))

(* [Vec3 a, Float b, Vec4 c] is laid out at 0, 12, 16 in 32 bytes. *)
C1_Witness ==
    /\ ShaderBuilt
    /\ unwrap(shader).uniform_properties = <<U("Vec3", "a"), U("Float", "b"), U("Vec4", "c")>>
    /\ unwrap(shader).uniform_offsets = [n \in {"a", "b", "c"} |->
                                           IF n = "a" THEN 0 ELSE IF n = "b" THEN 12 ELSE 16]
    /\ unwrap(shader).uniform_size = 32

OffsetsInRange(sh) ==
    /\ sh.uniform_size % 16 = 0
    /\ \A i \in 1..Len(sh.uniform_properties) :
          LET property == sh.uniform_properties[i]
              offset == get_uniform_offset(sh, property.name)
          IN /\ is_some(offset)
             /\ unwrap(offset) >= 0
             /\ unwrap(offset) <= sh.uniform_size - size(property.ty)

IndexedByPosition(sh) ==
    LET properties == desc.texture_properties
        n == Len(properties)
    IN /\ MapValues(sh.textures_index) = 0..(n - 1)
       /\ \A i \in 1..n : get_texture_index(sh, properties[i].name) = Some(i - 1)

(* C3, as stated: Shader::new over a list of N texture properties gives     *)
(* textures_index exactly the indices 0..N-1, each property's index being   *)
(* its position in the list.                                                *)
C3_AnyList == is_some(shader) => IndexedByPosition(unwrap(shader))

(* C3, amended: the same for lists whose names are pairwise distinct.       *)
C3_DistinctNames ==
    (is_some(shader) /\ DistinctNames(desc.texture_properties))
        => IndexedByPosition(unwrap(shader))

(* Three texture properties t, u, v indexed 0, 1, 2. *)
C3_Witness ==
    /\ is_some(shader)
    /\ Len(desc.texture_properties) = 3
    /\ unwrap(shader).textures_index = [n \in {"t", "u", "v"} |->
                                           IF n = "t" THEN 0 ELSE IF n = "u" THEN 1 ELSE 2]

(***************************************************************************)
(* Properties of a material's textures and bind group (TextureSpec).       *)
(***************************************************************************)
MaterialBuilt == is_some(material) /\ is_some(unwrap(material).bind_group)

Bindings(entries) == {entries[k].binding : k \in DOMAIN entries}

NoBindingTwice(entries) ==
    \A j, k \in DOMAIN entries : entries[j].binding = entries[k].binding => j = k

LayoutHas(layout, binding, ty) ==
    \E k \in DOMAIN layout : layout[k].binding = binding /\ layout[k].ty = ty

GroupHas(group, binding, resource) ==
    \E k \in DOMAIN group : group[k].binding = binding /\ group[k].resource = resource

ResourceOf(ty) ==
    CASE ty = "Buffer" -> "Buffer"
      [] ty = "Texture" -> "TextureView"
      [] ty = "Sampler" -> "Sampler"

(* C4: the layout of Shader::build and the bind group of Material::build   *)
(* use the same binding numbers: 0 is the uniform buffer, the texture      *)
(* property with index i has its view at 2i+1 and its sampler at 2i+2, no  *)
(* binding is used twice, and every layout entry has a bind-group entry of *)
(* the same binding and kind.                                              *)
C4_SameBindings ==
    (ShaderBuilt /\ MaterialBuilt) =>
        LET sh == unwrap(shader)
            mat == unwrap(material)
            layout == unwrap(sh.bind_group_layout)
            group == unwrap(mat.bind_group).entries
        IN /\ unwrap(mat.bind_group).layout = layout
           /\ NoBindingTwice(layout) /\ NoBindingTwice(group)
           /\ Bindings(layout) = Bindings(group)
           /\ LayoutHas(layout, 0, "Buffer")
           /\ \E k \in DOMAIN group :
                  /\ group[k].binding = 0 /\ group[k].resource = "Buffer"
                  /\ Some(group[k].buffer) = mat.uniform_buffer
           /\ \A name \in DOMAIN sh.texture_properties :
                  LET i == sh.textures_index[name] IN
                  /\ LayoutHas(layout, 2 * i + 1, "Texture")
                  /\ LayoutHas(layout, 2 * i + 2, "Sampler")
                  /\ GroupHas(group, 2 * i + 1, "TextureView")
                  /\ GroupHas(group, 2 * i + 2, "Sampler")
           /\ \A k \in DOMAIN layout :
                  GroupHas(group, layout[k].binding, ResourceOf(layout[k].ty))

(* A built material of a shader with two texture properties: bindings 0..4. *)
C4_Witness ==
    /\ ShaderBuilt /\ MaterialBuilt
    /\ DOMAIN unwrap(shader).texture_properties = {"t", "u"}
    /\ Bindings(unwrap(unwrap(material).bind_group).entries) = 0..4

(* C7, as stated: set_texture(name, texture) replaces the material's       *)
(* texture only when the shader declares name as a texture property of     *)
(* the given texture's type; in every other case the call changes nothing. *)
C7_TypeChecked ==
    [][last'.op = "set_texture" =>
          LET name == last'.name
              value == unwrap(last'.texture)
              declared == unwrap(shader).texture_properties
          IN IF name \in DOMAIN declared /\ texture_kind(value) = declared[name].kind
             THEN unwrap(material').textures =
                      [unwrap(material).textures EXCEPT ![name] = value]
             ELSE material' = material]_vars

PlaceholderPixel(default) ==
    CASE default = "white" -> <<255, 255, 255, 255>>
      [] default = "black" -> <<0, 0, 0, 255>>
      [] default \in {"gray", "grey"} -> <<128, 128, 128, 255>>
      [] default = "normal" -> <<128, 128, 255, 255>>

BoundTo(group, binding, pixel) ==
    \E k \in DOMAIN group :
        /\ group[k].binding = binding /\ group[k].resource = "TextureView"
        /\ unwrap(group[k].texture).bytes = pixel
        /\ unwrap(group[k].texture).size = [width |-> 1, height |-> 1, depth |-> 1]
        /\ unwrap(group[k].texture).view_dimension = "D2"

(* C9: in a material built without any set_texture call, every Texture2D   *)
(* property is bound to the 1x1 placeholder its default names: white       *)
(* [255,255,255,255], black [0,0,0,255], gray or grey [128,128,128,255],   *)
(* normal [128,128,255,255].  Only Texture2D properties carry a default.   *)
C9_DefaultPlaceholders ==
    (ShaderBuilt /\ MaterialBuilt /\ ~history.texture_set) =>
        LET sh == unwrap(shader)
            group == unwrap(unwrap(material).bind_group).entries
        IN \A name \in DOMAIN sh.texture_properties :
              LET ty == sh.texture_properties[name] IN
              IF ty.kind = "Texture2D"
              THEN BoundTo(group, 2 * sh.textures_index[name] + 1, PlaceholderPixel(ty.default))
              ELSE ty.default = ""

(* A material of [t: grey, u: normal] built with its defaults. *)
C9_Witness ==
    /\ ShaderBuilt /\ MaterialBuilt /\ ~history.texture_set
    /\ desc.texture_properties = <<U(Texture2D("grey"), "t"), U(Texture2D("normal"), "u")>>
    /\ BoundTo(unwrap(unwrap(material).bind_group).entries, 1, <<128, 128, 128, 255>>)
    /\ BoundTo(unwrap(unwrap(material).bind_group).entries, 3, <<128, 128, 255, 255>>)

(***************************************************************************)
(* Properties of the typed setters (Spec).                                 *)
(***************************************************************************)
TypedSetters == {"set_float", "set_vec2", "set_vec3", "set_vec4", "set_mat3", "set_mat4"}

UniformNames(sh) == {sh.uniform_properties[i].name : i \in 1..Len(sh.uniform_properties)}

(* C5: a typed setter called with a name that is no uniform property of    *)
(* the material's shader leaves the material (its uniform bytes, textures, *)
(* buffer handle and bind group) and the GPU buffers unchanged, and        *)
(* raises no error.                                                        *)
C5_UnknownName ==
    [][(last'.op \in TypedSetters /\ last'.name \notin UniformNames(unwrap(shader))) =>
          /\ material' = material
          /\ buffers' = buffers
          /\ pending' = pending
          /\ next_buffer' = next_buffer
          /\ last'.result = "ok"]_vars

(* set_mat4 of an unknown name on a built material that holds values. *)
C5_Witness ==
    /\ last.op = "set_mat4" /\ last.name = "missing" /\ last.result = "ok"
    /\ MaterialBuilt
    /\ \E i \in DOMAIN unwrap(material).uniform_bytes : unwrap(material).uniform_bytes[i] # 0

(* C6: set_float(name, x) followed by set_float(name, y) on a known name   *)
(* leaves the byte buffer that set_float(name, y) alone gives from the     *)
(* buffer the first call started on.                                       *)
C6_LastWriteWins ==
    [][(/\ last.op = "set_float" /\ last.result = "ok"
        /\ last'.op = "set_float" /\ last'.name = last.name
        /\ last.name \in UniformNames(unwrap(shader))) =>
          unwrap(material').uniform_bytes =
              set_float([unwrap(material) EXCEPT !.uniform_bytes = last.before],
                        last'.name, last'.value).material.uniform_bytes]_vars

(* set_float(a, 1.0) on a buffer whose a held 0.5, which only a            *)
(* set_float(a, 0.5) writes.                                               *)
C6_Witness ==
    /\ last.op = "set_float" /\ last.name = "a" /\ last.value = <<F32_1_0>>
    /\ desc.uniform_properties = <<U("Float", "a"), U("Vec2", "b")>>
    /\ Len(last.before) = 16
    /\ SubSeq(last.before, 1, 4) = to_le_bytes(F32_0_5)
    /\ SubSeq(unwrap(material).uniform_bytes, 1, 4) = to_le_bytes(F32_1_0)

(***************************************************************************)
(* Properties of the uniform bytes and the GPU buffer (QueueSpec).         *)
(***************************************************************************)
BytesMatchShader == Len(unwrap(material).uniform_bytes) = unwrap(shader).uniform_size

(* C8, as stated: in every state reachable by any sequence of              *)
(* Shader::build, Material::from_shader, setter, Material::build and       *)
(* Material::update calls, the material's uniform bytes are exactly        *)
(* uniform_size long.                                                      *)
C8_AnySequence == is_some(material) => BytesMatchShader

(* C8, amended: the same for a material created from a shader that         *)
(* Shader::build had built before Material::from_shader ran.               *)
C8_BuiltFirst == (is_some(material) /\ history.built_first) => BytesMatchShader

(* An updated material of a built shader, 16 bytes with values in them. *)
C8_Witness ==
    /\ is_some(material) /\ history.built_first
    /\ last.op = "Material::update" /\ last.result = "ok"
    /\ Len(unwrap(material).uniform_bytes) = 16
    /\ unwrap(material).uniform_bytes # zeros(16)

HasBuffer == is_some(material) /\ is_some(unwrap(material).uniform_buffer)

C11_FailsLoudly ==
    [][/\ (last'.op = "Material::update" /\ ~MaterialBuilt) =>
             /\ last'.result = "panic"
             /\ pending' = pending /\ buffers' = buffers
       /\ (last'.op = "SubShader::render_pipeline" /\ ~ShaderBuilt) =>
             /\ last'.result = "panic"
             /\ render_pipelines' = render_pipelines]_vars

(* A pipeline was asked of a shader whose build failed after it compiled   *)
(* some modules.                                                           *)
C11_Witness ==
    /\ last.op = "SubShader::render_pipeline" /\ last.result = "panic"
    /\ ~ShaderBuilt
    /\ is_some(unwrap(shader).sub_shaders[last.name].vs_module)
    /\ render_pipelines = EmptyMap

(* C12, as stated: a Shader::build that returns an error leaves no         *)
(* sub-shader with a compiled module, no bind_group_layout, and            *)
(* uniform_offsets and uniform_size as they were.                          *)
C12_BuildAtomic ==
    [][(last'.op = "Shader::build" /\ last'.result = "err") =>
          LET sh == unwrap(shader') IN
          /\ \A tag \in DOMAIN sh.sub_shaders :
                 is_none(sh.sub_shaders[tag].vs_module) /\ is_none(sh.sub_shaders[tag].fs_module)
          /\ is_none(sh.bind_group_layout)
          /\ sh.uniform_offsets = unwrap(shader).uniform_offsets
          /\ sh.uniform_size = unwrap(shader).uniform_size]_vars

(***************************************************************************)
(* Properties of parsing a description (ParseSpec).                        *)
(***************************************************************************)
Parsed == is_some(input) /\ last.op = "Shader::try_from"

(* sub occurs in s. *)
Contains(s, sub) ==
    \E i \in 1..(Len(s) - Len(sub) + 1) : SubSeq(s, i, i + Len(sub) - 1) = sub

Items(value) == {value.a[i] : i \in DOMAIN value.a}

Strings(values) == {v.s : v \in {x \in values : x.t = "string"}}

nth(value, i) == IF i <= Len(value.a) THEN value.a[i] ELSE JNull

(* The strings a description gives at the places of keywords that are no   *)
(* keyword of the place.                                                   *)
UnknownKeywords(description) ==
    LET uniforms == Items(index(description, "uniform_properties"))
        textures == Items(index(description, "texture_properties"))
        subs == Items(index(description, "subshaders"))
        blends == {index(sub, "blend") : sub \in subs} IN
    (Strings({nth(prop, 1) : prop \in uniforms}) \ UniformTypeWords)
    \cup (Strings({nth(prop, 1) : prop \in textures}) \ TextureTypeWords)
    \cup (Strings({nth(prop, 3) : prop \in {p \in textures : nth(p, 1) = JStr("2D")}})
          \ {"white", "black", "normal", "gray", "grey"})
    \cup (Strings({index(sub, "cull") : sub \in subs}) \ CullWords)
    \cup (Strings({index(sub, "front_face") : sub \in subs}) \ FrontFaceWords)
    \cup (Strings(UNION {Items(index(sub, "write_mask")) : sub \in subs}) \ ChannelWords)
    \cup (Strings({index(blend, key) : blend \in blends, key \in {"op", "op_alpha"}})
          \ BlendOpWords)
    \cup (Strings({index(blend, key) : blend \in blends,
                                       key \in {"src", "dst", "src_alpha", "dst_alpha"}})
          \ BlendFactorWords)
    \cup (Strings({index(sub, "depth_compare") : sub \in subs}) \ CompareWords)

(* C13: a description with a string that is no keyword at the place of a   *)
(* uniform type, a texture type, a 2D default, cull, front_face, a         *)
(* write_mask channel, a blend operation, a blend factor or depth_compare  *)
(* parses to a ShaderParseError whose message holds one of those strings,  *)
(* and to no Shader.                                                       *)
C13_UnknownKeyword ==
    (Parsed /\ UnknownKeywords(unwrap(input).value) # {}) =>
        /\ last.result = "err"
        /\ is_some(error)
        /\ \E word \in UnknownKeywords(unwrap(input).value) :
               Contains(fmt(unwrap(error).parse_error), word)
        /\ is_none(shader)

(* The second sub-shader gives a blend operation by the name of its wgpu   *)
(* value, the first a recognized one.                                      *)
C13_Witness ==
    /\ Parsed /\ last.result = "err" /\ is_none(shader)
    /\ UnknownKeywords(unwrap(input).value) = {"Add"}
    /\ index(index(nth(index(unwrap(input).value, "subshaders"), 2), "blend"), "op")
           = JStr("Add")
    /\ fmt(unwrap(error).parse_error) = "Shader parse error: Unknown blend operation 'Add'"

(* The required fields a description leaves out or gives with another JSON *)
(* type than the format asks.                                              *)
MalformedFields(description) ==
    LET textures == Items(index(description, "texture_properties"))
        subs == Items(index(description, "subshaders")) IN
    {f \in {"name"} : index(description, f).t # "string"}
    \cup {f \in {"uniform_properties", "texture_properties", "subshaders"} :
             index(description, f).t # "array"}
    \cup {f \in {"tag", "vs", "fs"} : \E sub \in subs : index(sub, f).t # "string"}
    \cup {f \in {"default"} :
             \E prop \in textures : nth(prop, 1) = JStr("2D") /\ nth(prop, 3).t # "string"}

(* C14, as stated: an inline description with a required field missing or  *)
(* of the wrong JSON type parses to a ShaderParseError whose message names *)
(* such a field; the parse does not panic.                                 *)
C14_NamesField ==
    (Parsed /\ unwrap(input).value.t = "object"
            /\ MalformedFields(unwrap(input).value) # {}) =>
        /\ last.result = "err"
        /\ is_some(error)
        /\ \E field \in MalformedFields(unwrap(input).value) :
               Contains(fmt(unwrap(error).parse_error), field)

(* The places of a sub-shader description where a keyword names a value of *)
(* the render state, and the value the format gives each keyword.          *)
KeywordSlots == {slot \in OptionSlots : slot.path # <<"write_mask">>}

WordAt(sub, path) ==
    IF Len(path) = 1 THEN index(sub, path[1]) ELSE index(index(sub, path[1]), path[2])

Corresponding(word) ==
    CASE word = "front" -> "Front"
      [] word = "back" -> "Back"
      [] word = "none" -> "None"
      [] word = "cw" -> "Cw"
      [] word = "ccw" -> "Ccw"
      [] word = "add" -> "Add"
      [] word = "sub" -> "Subtract"
      [] word = "rsub" -> "ReverseSubtract"
      [] word = "min" -> "Min"
      [] word = "max" -> "Max"
      [] word = "one" -> "One"
      [] word = "zero" -> "Zero"
      [] word = "src_alpha" -> "SrcAlpha"
      [] word = "src_color" -> "SrcColor"
      [] word = "one_minus_src_alpha" -> "OneMinusSrcAlpha"
      [] word = "one_minus_src_color" -> "OneMinusSrcColor"
      [] word = "dst_alpha" -> "DstAlpha"
      [] word = "dst_color" -> "DstColor"
      [] word = "one_minus_dst_alpha" -> "OneMinusDstAlpha"
      [] word = "one_minus_dst_color" -> "OneMinusDstColor"
      [] word = "always" -> "Always"
      [] word = "never" -> "Never"
      [] word = "equal" -> "Equal"
      [] word = "nequal" -> "NotEqual"
      [] word = "less" -> "Less"
      [] word = "lequal" -> "LessEqual"
      [] word = "greater" -> "Greater"
      [] word = "gequal" -> "GreaterEqual"

(* The part of a render state the keyword at path names. *)
StateAt(state, path) ==
    CASE path = <<"cull">> -> state.cull_mode
      [] path = <<"front_face">> -> state.front_face
      [] path = <<"depth_compare">> -> state.depth_compare
      [] path = <<"blend", "op">> -> state.color_blend.operation
      [] path = <<"blend", "src">> -> state.color_blend.src_factor
      [] path = <<"blend", "dst">> -> state.color_blend.dst_factor
      [] path = <<"blend", "op_alpha">> -> state.alpha_blend.operation
      [] path = <<"blend", "src_alpha">> -> state.alpha_blend.src_factor
      [] path = <<"blend", "dst_alpha">> -> state.alpha_blend.dst_factor

(* The render state a pipeline was created with. *)
RenderState(pipeline) ==
    [cull_mode |-> pipeline.primitive.cull_mode,
     front_face |-> pipeline.primitive.front_face,
     depth_compare |-> pipeline.depth_stencil.depth_compare,
     color_blend |-> pipeline.fragment.target.color_blend,
     alpha_blend |-> pipeline.fragment.target.alpha_blend]

Recognized(sub, slot) ==
    WordAt(sub, slot.path).t = "string" /\ WordAt(sub, slot.path).s \in slot.words

(* C15: once a description is parsed, every sub-shader that gives a        *)
(* recognized keyword for cull, front_face, a blend operation, a blend     *)
(* factor or depth_compare holds exactly the value of that keyword in its  *)
(* options, two sub-shaders with different keywords at the same place hold *)
(* different values, and the pipeline made for the pass was created with   *)
(* the value.                                                              *)
C15_KeywordsRoundTrip ==
    (is_some(input) /\ is_some(shader) /\ unwrap(input).value.t = "object") =>
        LET subs == index(unwrap(input).value, "subshaders").a
            sh == unwrap(shader)
            options(k) == sh.sub_shaders[index(subs[k], "tag").s].options
            key(k) == pipeline_key(sh.name, index(subs[k], "tag").s) IN
        \A slot \in KeywordSlots :
            /\ \A k \in DOMAIN subs :
                   Recognized(subs[k], slot) =>
                       /\ StateAt(options(k), slot.path)
                              = Corresponding(WordAt(subs[k], slot.path).s)
                       /\ key(k) \in DOMAIN render_pipelines =>
                              StateAt(RenderState(render_pipelines[key(k)]), slot.path)
                                  = Corresponding(WordAt(subs[k], slot.path).s)
            /\ \A k1, k2 \in DOMAIN subs :
                   (/\ Recognized(subs[k1], slot) /\ Recognized(subs[k2], slot)
                    /\ WordAt(subs[k1], slot.path) # WordAt(subs[k2], slot.path)) =>
                       StateAt(options(k1), slot.path) # StateAt(options(k2), slot.path)

(* Both passes have their pipelines, made with the destination factors the *)
(* two sub-shaders name.                                                   *)
C15_Witness ==
    /\ is_some(input) /\ is_some(shader)
    /\ {"PBR-ForwardBase", "PBR-ForwardAdd"} \subseteq DOMAIN render_pipelines
    /\ LET subs == index(unwrap(input).value, "subshaders").a IN
       /\ Len(subs) = 2
       /\ WordAt(subs[1], <<"blend", "dst">>) = JStr("one_minus_src_alpha")
       /\ WordAt(subs[2], <<"blend", "dst">>) = JStr("dst_color")
    /\ render_pipelines["PBR-ForwardBase"].fragment.target.color_blend.dst_factor
           = "OneMinusSrcAlpha"
    /\ render_pipelines["PBR-ForwardAdd"].fragment.target.color_blend.dst_factor = "DstColor"

(* The sub-shaders of a description whose stencil object gives the two     *)
(* masks and the two faces.                                                *)
FullStencils(description) ==
    {sub \in Items(index(description, "subshaders")) :
        {"read_mask", "write_mask", "front", "back"} \subseteq DOMAIN index(sub, "stencil").o}

(* C16, as stated: a sub-shader whose stencil object gives read_mask,       *)
(* write_mask, front and back parses, and its options hold the two masks   *)
(* and the operations of the two faces.                                    *)
C16_StencilParsed ==
    (Parsed /\ FullStencils(unwrap(input).value) # {}) =>
        /\ last.result = "ok"
        /\ is_some(shader)
        /\ \A sub \in FullStencils(unwrap(input).value) :
               LET given == index(sub, "stencil")
                   stencil == unwrap(shader).sub_shaders[index(sub, "tag").s].options.stencil IN
               /\ stencil.read_mask = index(given, "read_mask").n
               /\ stencil.write_mask = index(given, "write_mask").n
               /\ stencil.front.compare = Corresponding(index(index(given, "front"), "compare").s)
               /\ stencil.back.compare = Corresponding(index(index(given, "back"), "compare").s)

(* The content of the file a path input names, None where there is none. *)
Referenced(in) ==
    IF in.value.t = "string" /\ in.value.s \in DOMAIN in.files THEN in.files[in.value.s]
    ELSE None

(* C17, as stated: the parse of a path reads that one file only: it ends,  *)
(* and where the content of the file is itself a path no Shader comes of   *)
(* a second file.                                                          *)
C17_SingleIndirection ==
    (Parsed /\ unwrap(input).value.t = "string") =>
        /\ last.result # "overflow"
        /\ (is_some(Referenced(unwrap(input))) /\ unwrap(Referenced(unwrap(input))).t = "string")
               => is_none(shader)

(***************************************************************************)
(* The engine: engine.rs, inner_pipelines.rs and the mesh loop of          *)
(* gltf_scene.rs.  engine is Some(the Engine) once Engine::new returned;   *)
(* render_pipelines is graphics_state.render_pipelines; frame is the       *)
(* commands of the latest render pass; input is the shader file on disk.   *)
(***************************************************************************)

MaxMeshes == 2

(* inner_pipelines.rs, lines 5-13: the pipelines the engine makes for its  *)
(* own passes, by key.                                                     *)
init_inner_pipelines ==
    [key \in {"Blit-Rgba8UnormSrgb", "Blit-Rgba8Unorm", "Blit-Rgba16Float", "Skybox",
              "EnvMap-Irradiance", "EnvMap-Prefilter"} |->
        [label |-> key \o " Render Pipeline"]]

(* light.rs, Light::build: the bind group made with the layout passed in. *)
Light_build(light, layout) == [light EXCEPT !.bind_group = Some([layout |-> layout])]

(* env_map.rs, lines 24-62 and 104-145: the bind group of an environment  *)
(* map, its three cubes at bindings 0, 2, 4 (samplers at 1, 3, 5) and the  *)
(* engine's BRDF table at 6 and 7.                                         *)
env_bind_group(cubemap, irradiance, prefiltered) ==
    [label |-> "EnvMap Bind Group",
     entries |-> <<[binding |-> 0, resource |-> "TextureView", texture |-> cubemap],
                   [binding |-> 1, resource |-> "Sampler", texture |-> cubemap],
                   [binding |-> 2, resource |-> "TextureView", texture |-> irradiance],
                   [binding |-> 3, resource |-> "Sampler", texture |-> irradiance],
                   [binding |-> 4, resource |-> "TextureView", texture |-> prefiltered],
                   [binding |-> 5, resource |-> "Sampler", texture |-> prefiltered],
                   [binding |-> 6, resource |-> "TextureView", texture |-> [label |-> "BRDF LUT"]],
                   [binding |-> 7, resource |-> "Sampler", texture |-> [label |-> "BRDF LUT"]]>>]

EnvMap_of(cubemap, irradiance, prefiltered) ==
    [cubemap |-> cubemap, irradiance |-> irradiance, prefiltered |-> prefiltered,
     bind_group |-> env_bind_group(cubemap, irradiance, prefiltered)]

(* env_map.rs, lines 14-69: three default cubes, nothing rendered. *)
EnvMap_default == EnvMap_of(default_cube, default_cube, default_cube)

(* engine.rs, lines 38-130: the camera and the two lights are built, the   *)
(* tables and the mesh list start empty.                                   *)
Engine_new ==
    [camera |-> [bind_group |-> Some([layout |-> bind_group_layouts["_Camera"]])],
     lights |-> <<Light_build([name |-> "light0", bind_group |-> None],
                              bind_group_layouts["_Light"]),
                  Light_build([name |-> "light1", bind_group |-> None],
                              bind_group_layouts["_Light"])>>,
     meshes |-> <<>>,
     shaders |-> EmptyMap,
     materials |-> EmptyMap,
     skybox |-> EnvMap_default]

(* What load_shaders has done so far: how it ended, the engine's tables    *)
(* and the error it returns.                                               *)
Loading(e, pipelines) ==
    [kind |-> "ok", shaders |-> e.shaders, materials |-> e.materials,
     render_pipelines |-> pipelines, message |-> ""]

(* engine.rs, lines 184-199: the pipelines of the passes of sh go into the *)
(* table under their keys.  The keys of one shader differ by their tags,   *)
(* so the order of the walk over sub_shaders does not show in the table.   *)
insert_pipelines(table, sh) ==
    [key \in DOMAIN table \cup {pipeline_key(sh.name, t) : t \in DOMAIN sh.sub_shaders} |->
        IF \E t \in DOMAIN sh.sub_shaders : key = pipeline_key(sh.name, t)
        THEN unwrap(pipeline_of(
                 sh.sub_shaders[CHOOSE t \in DOMAIN sh.sub_shaders :
                                    key = pipeline_key(sh.name, t)], sh).pipeline)
        ELSE table[key]]

RECURSIVE load_shaders_loop(_, _, _, _)

(* Lines 184-200, for the built shader sh. *)
load_shaders_insert(shaders, i, files, state, sh) ==
    IF \E t \in DOMAIN sh.sub_shaders : pipeline_of(sh.sub_shaders[t], sh).result = "panic"
    THEN [state EXCEPT !.kind = "panic"]
    ELSE load_shaders_loop(shaders, i + 1, files,
             [state EXCEPT !.render_pipelines = insert_pipelines(@, sh),
                           !.shaders = insert(@, sh.name, sh)])

(* A loop that puts the shader into the table before it looks at the      *)
(* result of build.                                                        *)
load_shaders_build_kept(shaders, i, files, state, built) ==
    IF ~built.ok
    THEN [state EXCEPT !.kind = "err", !.message = "Shader::build",
                       !.shaders = insert(@, built.shader.name, built.shader)]
    ELSE load_shaders_insert(shaders, i, files, state, built.shader)

(* Line 183: shader.build(..)?; the shader is a local of the loop and is   *)
(* dropped with the error.                                                 *)
load_shaders_build(shaders, i, files, state, built) ==
    IF ~built.ok THEN [state EXCEPT !.kind = "err", !.message = "Shader::build"]
    ELSE load_shaders_insert(shaders, i, files, state, built.shader)

(* Line 182: shader.try_into()?. *)
load_shaders_try_into(shaders, i, files, state, parsed) ==
    IF parsed.kind # "ok"
    THEN [state EXCEPT !.kind = parsed.kind, !.message = fmt(parsed.parse_error)]
    ELSE load_shaders_build(shaders, i, files, state,
             Shader_build(parsed.value[1], KeySeq(DOMAIN parsed.value[1].sub_shaders)))

(* Lines 181-200: the loop over the shaders of the file. *)
load_shaders_loop(shaders, i, files, state) ==
    IF i > Len(shaders) THEN state
    ELSE load_shaders_try_into(shaders, i, files, state, Shader_try_from(shaders[i], files, {}))

(* Lines 203-214: the loop over the materials of the file. *)
RECURSIVE load_materials_loop(_, _, _)
load_materials_loop(materials, i, state) ==
    IF i > Len(materials) THEN state
    ELSE LET name == as_str(index(materials[i], "name"))
             shader_name == as_str(index(materials[i], "shader")) IN
         IF is_none(name) \/ is_none(shader_name) THEN [state EXCEPT !.kind = "panic"]
         ELSE IF ~contains_key(state.shaders, unwrap(shader_name))
         THEN [state EXCEPT !.kind = "panic"]
         ELSE load_materials_loop(materials, i + 1,
                  [state EXCEPT !.materials =
                      insert(@, unwrap(name),
                             Material_from_shader(unwrap(name),
                                                  state.shaders[unwrap(shader_name)]))])

(* Lines 202-216, reached when the loop over the shaders ended. *)
load_materials(json_value, state) ==
    IF state.kind # "ok" THEN state
    ELSE IF is_none(as_array(index(json_value, "materials")))
    THEN [state EXCEPT !.kind = "panic"]
    ELSE load_materials_loop(unwrap(as_array(index(json_value, "materials"))), 1, state)

(* Lines 180-216, for the content of the file. *)
load_shaders_from(json_value, files, state) ==
    IF is_none(as_array(index(json_value, "shaders"))) THEN [state EXCEPT !.kind = "panic"]
    ELSE load_materials(json_value,
             load_shaders_loop(unwrap(as_array(index(json_value, "shaders"))), 1, files,
                               state))

(* Lines 175-217: Engine::load_shaders. *)
load_shaders(path, files, state) ==
    IF path \notin DOMAIN files THEN [state EXCEPT !.kind = "err", !.message = "io::Error"]
    ELSE IF is_none(files[path])
    THEN [state EXCEPT !.kind = "err", !.message = "serde_json::Error"]
    ELSE load_shaders_from(unwrap(files[path]), files, state)

(* The buffers some material of the table still holds: a material that is  *)
(* replaced in the table is dropped, and its buffer with it.               *)
held_buffers(bufs, materials) ==
    [id \in {h \in DOMAIN bufs : \E name \in DOMAIN materials :
                                     materials[name].uniform_buffer = Some(h)} |-> bufs[id]]

Running == last.result \in {"ok", "err"}

LoadShaders ==
    /\ Running /\ is_some(engine) /\ is_some(input)
    /\ \E r \in {load_shaders(unwrap(input).path, unwrap(input).files,
                              Loading(unwrap(engine), render_pipelines))} :
          /\ engine' = Some([unwrap(engine) EXCEPT !.shaders = r.shaders,
                                                   !.materials = r.materials])
          /\ render_pipelines' = r.render_pipelines
          /\ buffers' = held_buffers(buffers, r.materials)
          /\ error' = IF r.kind = "err" THEN Some([message |-> r.message]) ELSE None
          /\ last' = Call("Engine::load_shaders", unwrap(input).path, <<>>, None, <<>>, r.kind)
    /\ UNCHANGED <<submitted, input, frame, desc, args, shader, material, next_buffer, pending, history>>

(* mesh.rs, lines 94-124: Mesh::new and Mesh::build. *)
Mesh_new(material_name) ==
    [material |-> material_name, vertex_buffer |-> None, index_buffer |-> None,
     bind_group |-> None]

Mesh_build(mesh, layout) ==
    [mesh EXCEPT !.vertex_buffer = Some("Object Vertex Buffer"),
                 !.index_buffer = Some("Object Index Buffer"),
                 !.bind_group = Some([layout |-> layout])]

(* A setter of the chain of gltf_scene.rs, lines 165-279: r is what the    *)
(* setters before it left, a panic ends the chain.                         *)
then_set_vec3(r, name, value) ==
    IF r.result # "ok" THEN r ELSE set_vec3(r.material, name, value)

then_set_float(r, name, value) ==
    IF r.result # "ok" THEN r ELSE set_float(r.material, name, value)

then_set_texture(r, name, value) ==
    IF r.result # "ok" THEN r
    ELSE [material |-> set_texture(r.material, name, value), result |-> "ok"]

(* gltf_scene.rs, lines 165-278, for a glTF material with the base colour  *)
(* factor given, no texture of its own, and glTF's defaults elsewhere:     *)
(* emissive 0, metallic 1, roughness 1.                                    *)
set_gltf_material(mat, base_color_factor) ==
    then_set_texture(
    then_set_texture(
    then_set_texture(
    then_set_float(
    then_set_float(
    then_set_vec3(
    then_set_texture(set_vec4(mat, "base_color", base_color_factor),
                     "base_color_tex", white1x1),
                  "emissive_factor", <<0, 0, 0>>),
                   "metallic_factor", <<F32_1_0>>),
                   "roughness_factor", <<F32_1_0>>),
                     "metallic_roughness_tex", black1x1),
                     "emissive_tex", black1x1),
                     "normal_tex", normal1x1)

(* Lines 280-291: the material is built and the mesh joins the list,       *)
(* unless the base colour is fully transparent.  The bit pattern 0 is      *)
(* alpha 0.0, the only factor of this model below 0.001.                   *)
push_mesh(e, name, sh, r, base_color_factor, id) ==
    IF r.result # "ok"
    THEN [kind |-> "panic", engine |-> e, built |-> FALSE]
    ELSE IF base_color_factor[4] = 0
    THEN [kind |-> "ok", built |-> FALSE,
          engine |-> [e EXCEPT !.materials[name] = r.material]]
    ELSE IF is_none(sh.bind_group_layout)
    THEN [kind |-> "panic", built |-> FALSE,
          engine |-> [e EXCEPT !.materials[name] = r.material]]
    ELSE [kind |-> "ok", built |-> TRUE,
          engine |-> [e EXCEPT !.materials[name] =
                                   Material_build(r.material, id, unwrap(sh.bind_group_layout)),
                               !.meshes = Append(@, Mesh_build(Mesh_new(name),
                                                     bind_group_layouts["_Object"]))]]

(* gltf_scene.rs, lines 159-296: one primitive of the glTF file, whose     *)
(* material is called gltf_material_name.                                  *)
load_primitive(e, gltf_material_name, base_color_factor, id) ==
    IF ~contains_key(e.materials, gltf_material_name)
    THEN [kind |-> "ok", engine |-> e, built |-> FALSE]
    ELSE IF ~contains_key(e.shaders, e.materials[gltf_material_name].shader)
    THEN [kind |-> "panic", engine |-> e, built |-> FALSE]
    ELSE push_mesh(e, gltf_material_name,
                   e.shaders[e.materials[gltf_material_name].shader],
                   set_gltf_material(e.materials[gltf_material_name], base_color_factor),
                   base_color_factor, id)

GltfMaterialNames == {"m1", "m2", "m3"}

LoadPrimitive ==
    /\ Running /\ is_some(engine)
    /\ Len(unwrap(engine).meshes) < MaxMeshes
    /\ \E gltf_material_name \in GltfMaterialNames, alpha \in {0, F32_1_0} :
       \E r \in {load_primitive(unwrap(engine), gltf_material_name,
                                <<F32_1_0, F32_1_0, F32_1_0, alpha>>, next_buffer)} :
          /\ engine' = Some(r.engine)
          /\ buffers' =
               IF r.built
               THEN insert(held_buffers(buffers, r.engine.materials), next_buffer,
                           r.engine.materials[gltf_material_name].uniform_bytes)
               ELSE buffers
          /\ next_buffer' = IF r.built THEN next_buffer + 1 ELSE next_buffer
          /\ last' = Call("Engine::load_gltf", gltf_material_name, <<>>, None, <<>>, r.kind)
    /\ UNCHANGED <<submitted, input, render_pipelines, frame, error, desc, args, shader, material,
                   pending, history>>

(* The commands of a render pass. *)
set_bind_group(group_index, resource) ==
    [cmd |-> "set_bind_group", index |-> group_index, resource |-> resource, pipeline |-> "",
     light |-> -1, mesh |-> -1]

set_pipeline(pipeline_name) ==
    [cmd |-> "set_pipeline", index |-> -1, resource |-> "", pipeline |-> pipeline_name,
     light |-> -1, mesh |-> -1]

(* draw_indexed, issued for the mesh at position mesh of the list and the *)
(* light at position light of the list (-1: the sky box); it draws with    *)
(* the pipeline set last.                                                  *)
draw_indexed(light, mesh) ==
    [cmd |-> "draw_indexed", index |-> -1, resource |-> "", pipeline |-> "",
     light |-> light, mesh |-> mesh]

(* A selection that gives every light the base pass. *)
tag_always_base(is_first) == "ForwardBase"

(* engine.rs, lines 396-401: the pass of a light. *)
sub_shader_tag_of(is_first) == IF is_first THEN "ForwardBase" ELSE "ForwardAdd"

(* A lookup that panics where the table has no pipeline under the key. *)
draw_with_material_indexed(pipelines, sub_shader_tag, light, j, mat, out) ==
    IF is_none(mat.bind_group) THEN [out EXCEPT !.kind = "panic"]
    ELSE IF contains_key(pipelines, pipeline_key(mat.shader, sub_shader_tag))
    THEN [out EXCEPT !.cmds = @ \o <<set_bind_group(0, mat.name),
                                     set_pipeline(pipeline_key(mat.shader, sub_shader_tag)),
                                     draw_indexed(light, j - 1)>>]
    ELSE [out EXCEPT !.kind = "panic"]

(* Lines 412-422: the material of the mesh is found. *)
draw_with_material(pipelines, sub_shader_tag, light, j, mat, out) ==
    IF is_none(mat.bind_group) THEN [out EXCEPT !.kind = "panic"]
    ELSE IF contains_key(pipelines, pipeline_key(mat.shader, sub_shader_tag))
    THEN [out EXCEPT !.cmds = @ \o <<set_bind_group(0, mat.name),
                                     set_pipeline(pipeline_key(mat.shader, sub_shader_tag)),
                                     draw_indexed(light, j - 1)>>]
    ELSE [out EXCEPT !.cmds = Append(@, set_bind_group(0, mat.name))]

(* Lines 404-422: one mesh for one light. *)
draw_mesh(e, pipelines, sub_shader_tag, light, j, out) ==
    IF is_none(e.meshes[j].bind_group) \/ is_none(e.meshes[j].vertex_buffer)
       \/ is_none(e.meshes[j].index_buffer)
    THEN [out EXCEPT !.kind = "panic"]
    ELSE IF contains_key(e.materials, e.meshes[j].material)
    THEN draw_with_material(pipelines, sub_shader_tag, light, j,
                            e.materials[e.meshes[j].material],
                            [out EXCEPT !.cmds = Append(@, set_bind_group(1, "mesh"))])
    ELSE [out EXCEPT !.cmds = Append(@, set_bind_group(1, "mesh"))]

RECURSIVE render_meshes(_, _, _, _, _, _)
render_meshes(e, pipelines, sub_shader_tag, light, j, out) ==
    IF out.kind # "ok" \/ j > Len(e.meshes) THEN out
    ELSE render_meshes(e, pipelines, sub_shader_tag, light, j + 1,
                       draw_mesh(e, pipelines, sub_shader_tag, light, j, out))

(* Lines 394-423: the loop over the lights; i - 1 is the position of the   *)
(* light in the list.                                                      *)
RECURSIVE render_lights(_, _, _, _, _)
render_lights(e, pipelines, i, is_first, out) ==
    IF out.kind # "ok" \/ i > Len(e.lights) THEN out
    ELSE IF is_none(e.lights[i].bind_group) THEN [out EXCEPT !.kind = "panic"]
    ELSE render_lights(e, pipelines, i + 1, FALSE,
             render_meshes(e, pipelines, sub_shader_tag_of(is_first), i - 1, 1,
                           [out EXCEPT !.cmds = Append(@, set_bind_group(2, e.lights[i].name))]))

(* Lines 432-445: the sky box closes the pass. *)
draw_skybox(e, pipelines, out) ==
    IF out.kind # "ok" THEN out
    ELSE IF ~contains_key(pipelines, "Skybox") \/ is_none(e.camera.bind_group)
    THEN [out EXCEPT !.kind = "panic"]
    ELSE [out EXCEPT !.cmds = @ \o <<set_pipeline("Skybox"), set_bind_group(1, "skybox"),
                                     set_bind_group(0, "camera"),
                                     draw_indexed(-1, -1)>>]

(* Lines 361-430: Engine::render. *)
render(e, pipelines) ==
    IF is_none(e.camera.bind_group) THEN [kind |-> "panic", cmds |-> <<>>]
    ELSE draw_skybox(e, pipelines,
             render_lights(e, pipelines, 1, TRUE,
                           [kind |-> "ok",
                            cmds |-> <<set_bind_group(4, "skybox"),
                                       set_bind_group(3, "camera")>>]))

Render ==
    /\ Running /\ is_some(engine)
    /\ \E r \in {render(unwrap(engine), render_pipelines)} :
          /\ frame' = r.cmds
          /\ buffers' = IF r.kind = "ok" THEN apply_writes(buffers, pending) ELSE buffers
          /\ pending' = IF r.kind = "ok" THEN <<>> ELSE pending
          /\ last' = Call("Engine::render", "", <<>>, None, <<>>, r.kind)
    /\ UNCHANGED <<submitted, input, engine, render_pipelines, error, desc, args, shader, material,
                   next_buffer, history>>

(* The shader files of the engine's runs.  A description has a name, its   *)
(* passes with a tag and a fragment shader each, and the properties        *)
(* load_gltf sets.                                                         *)
PassOf(tag, fs) == with(BaseSub(tag), "fs", JStr(fs))

DescriptionOf(name, passes) ==
    Object(<<<<"name", JStr(name)>>,
             <<"uniform_properties",
               JArr(<<JArr(<<JStr("vec4"), JStr("base_color")>>),
                      JArr(<<JStr("float"), JStr("metallic_factor")>>)>>)>>,
             <<"texture_properties",
               JArr(<<JArr(<<JStr("2D"), JStr("base_color_tex"), JStr("black")>>)>>)>>,
             <<"subshaders", JArr(passes)>>>>)

PBR == DescriptionOf("PBR", <<PassOf("ForwardBase", "pbr.frag"), PassOf("ForwardAdd", "pbr.frag")>>)
Unlit == DescriptionOf("Unlit", <<PassOf("ForwardBase", "unlit.frag")>>)
Glow == DescriptionOf("Glow", <<PassOf("ForwardAdd", "glow.frag")>>)
(* Two more descriptions that call themselves PBR. *)
PBRAgain == DescriptionOf("PBR", <<PassOf("ForwardBase", "pbr2.frag")>>)
PBRShadow == DescriptionOf("PBR", <<PassOf("ShadowCaster", "shadow.frag")>>)
(* Two names and two tags that join to the same key. *)
ToonForward == DescriptionOf("Toon-Forward", <<PassOf("Base", "toon.frag")>>)
Toon == DescriptionOf("Toon", <<PassOf("Forward-Base", "toon2.frag")>>)
(* A name and a tag that join to the key of a pipeline of the engine. *)
EnvMap == DescriptionOf("EnvMap", <<PassOf("Irradiance", "env.frag")>>)
(* A fragment shader that does not compile, and a keyword that is none. *)
Glass == DescriptionOf("Glass", <<PassOf("ForwardBase", "broken.frag")>>)
Bogus == DescriptionOf("Bogus", <<with(BaseSub("ForwardBase"), "cull", JStr("bogus"))>>)

ShaderLists ==
    {<<>>, <<PBR>>, <<PBR, Unlit>>, <<Unlit, PBR>>, <<Glow, PBR>>, <<PBR, PBRAgain>>,
     <<PBRAgain, PBR>>, <<PBR, PBRShadow>>, <<ToonForward, Toon>>, <<Toon, ToonForward>>,
     <<PBR, EnvMap>>, <<PBR, Glass>>, <<Glass, PBR>>, <<PBR, Bogus>>,
     <<JStr("pbr.json"), Unlit>>, <<JStr("missing.json")>>}

MaterialOf(name, shader_name) ==
    Object(<<<<"name", JStr(name)>>, <<"shader", JStr(shader_name)>>>>)

MaterialLists ==
    {<<>>, <<MaterialOf("m1", "PBR")>>, <<MaterialOf("m1", "PBR"), MaterialOf("m2", "Unlit")>>,
     <<MaterialOf("m1", "Glow"), MaterialOf("m2", "PBR")>>,
     <<MaterialOf("m1", "Toon")>>, <<without(MaterialOf("m1", "PBR"), "shader")>>}

ShaderFile(shaders, materials) ==
    Object(<<<<"shaders", JArr(shaders)>>, <<"materials", JArr(materials)>>>>)

(* The disk: the file load_shaders is given, and the file a description    *)
(* may name instead of its content.                                        *)
Disk(content) ==
    [path \in {"shaders.json", "pbr.json"} |->
        IF path = "shaders.json" THEN content ELSE Some(PBR)]

EngineInputs ==
    {[path |-> "shaders.json", files |-> Disk(Some(ShaderFile(shaders, materials)))] :
        shaders \in ShaderLists, materials \in MaterialLists}
    \cup {[path |-> "shaders.json", files |-> Disk(None)],
          [path |-> "none.json", files |-> Disk(None)],
          [path |-> "shaders.json", files |-> Disk(Some(without(ShaderFile(<<PBR>>, <<>>), "shaders")))],
          [path |-> "shaders.json", files |-> Disk(Some(without(ShaderFile(<<PBR>>, <<>>), "materials")))]}

(* main.rs: the engine is made, then the files are loaded and frames are   *)
(* rendered.                                                               *)
EngineInit ==
    /\ desc \in Descriptions({<<>>}, {<<>>}, {GoodSubShaders})
    /\ args = [floats |-> {}, vectors |-> {}]
    /\ shader = None
    /\ material = None
    /\ buffers = EmptyMap
    /\ next_buffer = 1
    /\ pending = <<>>
    /\ last = NoCall
    /\ history = NoHistory
    /\ input \in {Some(i) : i \in EngineInputs}
    /\ engine = Some(Engine_new)
    /\ render_pipelines = init_inner_pipelines
    /\ frame = <<>>
    /\ submitted = <<>>
    /\ error = None

EngineNext == LoadShaders \/ LoadPrimitive \/ Render

EngineSpec == EngineInit /\ [][EngineNext]_vars

(***************************************************************************)
(* Properties of the engine's tables and frames (EngineSpec).              *)
(***************************************************************************)
Loaded == last.op = "Engine::load_shaders" /\ last.result = "ok"

(* The (shader, pass) pairs of the engine: a loaded shader and one of its  *)
(* sub-shader tags.                                                        *)
Pairs(e) == UNION {{<<s, t>> : t \in DOMAIN e.shaders[s].sub_shaders} : s \in DOMAIN e.shaders}

(* The pipeline render_pipeline gives for pass t of the loaded shader s. *)
BuiltFrom(e, s, t) == unwrap(pipeline_of(e.shaders[s].sub_shaders[t], e.shaders[s]).pipeline)

(* The entries of the table that are not the engine's own pipelines. *)
ShaderDerived(table) ==
    {key \in DOMAIN table :
        key \notin DOMAIN init_inner_pipelines \/ table[key] # init_inner_pipelines[key]}

OnePipelinePerPair(e, table) ==
    /\ \A p \in Pairs(e) :
          /\ contains_key(table, p[1] \o "-" \o p[2])
          /\ table[p[1] \o "-" \o p[2]] = BuiltFrom(e, p[1], p[2])
    /\ Cardinality(ShaderDerived(table)) = Cardinality(Pairs(e))

FileShaders(in) ==
    IF contains_key(in.files, in.path) /\ is_some(in.files[in.path])
       /\ is_some(as_array(index(unwrap(in.files[in.path]), "shaders")))
    THEN [i \in DOMAIN unwrap(as_array(index(unwrap(in.files[in.path]), "shaders"))) |->
             LET value == unwrap(as_array(index(unwrap(in.files[in.path]), "shaders")))[i] IN
             IF is_some(as_str(value)) /\ contains_key(in.files, unwrap(as_str(value)))
                /\ is_some(in.files[unwrap(as_str(value))])
             THEN unwrap(in.files[unwrap(as_str(value))])
             ELSE value]
    ELSE <<>>

FilePairs(in) ==
    UNION {IF is_some(as_array(index(FileShaders(in)[i], "subshaders")))
           THEN {<<i, j>> : j \in DOMAIN unwrap(as_array(index(FileShaders(in)[i],
                                                                "subshaders")))}
           ELSE {} : i \in DOMAIN FileShaders(in)}

NameOf(in, p) == index(FileShaders(in)[p[1]], "name").s

KeyOf(in, p) ==
    NameOf(in, p) \o "-"
    \o index(unwrap(as_array(index(FileShaders(in)[p[1]], "subshaders")))[p[2]], "tag").s

(* No two descriptions of the file share a name, and no two pairs of the   *)
(* file share a key.                                                       *)
DistinctNamesAndKeys(in) ==
    /\ \A p, q \in FilePairs(in) : p[1] # q[1] => NameOf(in, p) # NameOf(in, q)
    /\ \A p, q \in FilePairs(in) : p # q => KeyOf(in, p) # KeyOf(in, q)

C19_LayoutOrder ==
    Loaded =>
        \A p \in Pairs(unwrap(engine)) :
            contains_key(render_pipelines, p[1] \o "-" \o p[2]) =>
                LET layout == render_pipelines[p[1] \o "-" \o p[2]].layout IN
                /\ Len(layout) = 4
                /\ layout[1] = unwrap(unwrap(engine).shaders[p[1]].bind_group_layout)
                /\ layout[2] = bind_group_layouts["_Object"]
                /\ layout[3] = bind_group_layouts["_Camera"]
                /\ layout[4] = bind_group_layouts["_Light"]

Rendered == last.op = "Engine::render" /\ last.result = "ok"

(* The draws of the frame that draw a mesh, by their place in the frame. *)
MeshDraws == {k \in DOMAIN frame : frame[k].cmd = "draw_indexed" /\ frame[k].mesh >= 0}

(* The pipeline the command at place k draws with: the one set last. *)
PipelineAt(k) ==
    frame[CHOOSE j \in 1..(k - 1) :
              /\ frame[j].cmd = "set_pipeline"
              /\ \A i \in (j + 1)..(k - 1) : frame[i].cmd # "set_pipeline"].pipeline

(* The material of the mesh a draw is issued for. *)
MaterialAt(k) == unwrap(engine).materials[unwrap(engine).meshes[frame[k].mesh + 1].material]

(* The meshes of the list whose material has a base pass in the table. *)
WithBasePass ==
    {j \in DOMAIN unwrap(engine).meshes :
        /\ contains_key(unwrap(engine).materials, unwrap(engine).meshes[j].material)
        /\ contains_key(render_pipelines,
               unwrap(engine).materials[unwrap(engine).meshes[j].material].shader
               \o "-ForwardBase")}

(* C20: in every rendered frame the pass goes by the position of the light *)
(* in the list: a mesh draw issued for the light at position 0 draws with  *)
(* "{material.shader}-ForwardBase", a mesh draw issued for a light at      *)
(* position 1 or more draws with "{material.shader}-ForwardAdd"; so a mesh *)
(* is drawn with ForwardBase for exactly one light of the frame, the       *)
(* first.                                                                  *)
C20_PositionalPass ==
    Rendered =>
        /\ \A k \in MeshDraws :
              /\ frame[k].light = 0 => PipelineAt(k) = MaterialAt(k).shader \o "-ForwardBase"
              /\ frame[k].light >= 1 => PipelineAt(k) = MaterialAt(k).shader \o "-ForwardAdd"
        /\ \A j \in WithBasePass :
              {frame[k].light : k \in {d \in MeshDraws :
                  /\ frame[d].mesh = j - 1
                  /\ PipelineAt(d) = MaterialAt(d).shader \o "-ForwardBase"}} = {0}

(* A frame of two meshes: the first is drawn for both lights, the second,  *)
(* whose shader has a base pass only, for the first light alone.           *)
C20_Witness ==
    /\ Rendered
    /\ Len(unwrap(engine).meshes) = 2
    /\ \E k \in MeshDraws :
          frame[k].light = 0 /\ frame[k].mesh = 0 /\ PipelineAt(k) = "PBR-ForwardBase"
    /\ \E k \in MeshDraws :
          frame[k].light = 1 /\ frame[k].mesh = 0 /\ PipelineAt(k) = "PBR-ForwardAdd"
    /\ \E k \in MeshDraws :
          frame[k].light = 0 /\ frame[k].mesh = 1 /\ PipelineAt(k) = "Unlit-ForwardBase"
    /\ ~\E k \in MeshDraws : frame[k].light = 1 /\ frame[k].mesh = 1

(* The (light, mesh) pairs of the frame whose mesh has its material in the *)
(* table, by their positions in the two lists.                             *)
LightMeshPairs ==
    {p \in (0..(Len(unwrap(engine).lights) - 1)) \X (0..(Len(unwrap(engine).meshes) - 1)) :
        contains_key(unwrap(engine).materials, unwrap(engine).meshes[p[2] + 1].material)}

(* The key render looks up for the pair. *)
KeyOfPair(p) ==
    unwrap(engine).materials[unwrap(engine).meshes[p[2] + 1].material].shader
    \o "-" \o (IF p[1] = 0 THEN "ForwardBase" ELSE "ForwardAdd")

DrawsOfPair(p) == {k \in MeshDraws : frame[k].light = p[1] /\ frame[k].mesh = p[2]}

(* Some mesh of the list has its material in the table, not built. *)
UnbuiltMaterialInUse ==
    \E j \in DOMAIN unwrap(engine).meshes :
        /\ contains_key(unwrap(engine).materials, unwrap(engine).meshes[j].material)
        /\ is_none(unwrap(engine).materials[unwrap(engine).meshes[j].material].bind_group)

(* C21: when the key "{material.shader}-{tag}" of a (light, mesh) pair is  *)
(* absent from the pipeline table, no draw is issued for the pair and      *)
(* render completes without error; every pair whose key is present has its *)
(* draw, drawn with the pipeline under that key.                           *)
C21_MissSkipsDraw ==
    last.op = "Engine::render" =>
        /\ last.result = "ok" \/ UnbuiltMaterialInUse
        /\ last.result = "ok" =>
              \A p \in LightMeshPairs :
                  IF contains_key(render_pipelines, KeyOfPair(p))
                  THEN /\ Cardinality(DrawsOfPair(p)) = 1
                       /\ \A k \in DrawsOfPair(p) : PipelineAt(k) = KeyOfPair(p)
                  ELSE DrawsOfPair(p) = {}

(* The first mesh of the list has no pass for the second light; the mesh   *)
(* after it is drawn for both lights all the same.                         *)
C21_Witness ==
    /\ Rendered
    /\ Len(unwrap(engine).meshes) = 2
    /\ <<1, 0>> \in LightMeshPairs /\ <<1, 1>> \in LightMeshPairs
    /\ ~contains_key(render_pipelines, KeyOfPair(<<1, 0>>))
    /\ DrawsOfPair(<<1, 0>>) = {}
    /\ DrawsOfPair(<<0, 0>>) # {}
    /\ DrawsOfPair(<<0, 1>>) # {}
    /\ DrawsOfPair(<<1, 1>>) # {}

LoadFailed == last.op = "Engine::load_shaders" /\ last.result = "err"

(* Whether load_shaders gets through the description: it parses and its   *)
(* passes compile.                                                         *)
Loads(value, files) ==
    /\ Shader_try_from(value, files, {}).kind = "ok"
    /\ \A t \in DOMAIN Shader_try_from(value, files, {}).value[1].sub_shaders :
          /\ is_some(compile_to_module(
                 Shader_try_from(value, files, {}).value[1].sub_shaders[t].vs_file))
          /\ is_some(compile_to_module(
                 Shader_try_from(value, files, {}).value[1].sub_shaders[t].fs_file))

(* The place of the first description of the file that fails, 0 if none. *)
FailedPlace(in) ==
    IF \E i \in DOMAIN FileShaders(in) : ~Loads(FileShaders(in)[i], in.files)
    THEN CHOOSE i \in DOMAIN FileShaders(in) :
             /\ ~Loads(FileShaders(in)[i], in.files)
             /\ \A j \in 1..(i - 1) : Loads(FileShaders(in)[j], in.files)
    ELSE 0

(* The name the description at place i gives itself, if it gives one. *)
NameAt(in, i) == as_str(index(FileShaders(in)[i], "name"))

TagsAt(in, i) ==
    IF is_some(as_array(index(FileShaders(in)[i], "subshaders")))
    THEN {index(unwrap(as_array(index(FileShaders(in)[i], "subshaders")))[j], "tag").s :
             j \in DOMAIN unwrap(as_array(index(FileShaders(in)[i], "subshaders")))}
    ELSE {}

C29_MeshMaterialsBuilt ==
    /\ ~UnbuiltMaterialInUse
    /\ ~(last.op = "Engine::render" /\ last.result = "panic")

(***************************************************************************)
(* Properties of the typed setters against the declared types (Spec).      *)
(***************************************************************************)
(* The property of sh that name refers to: the last one declared under it, *)
(* whose offset is the one build_uniform_offsets keeps.                    *)
DeclaredAt(sh, name) ==
    CHOOSE i \in 1..Len(sh.uniform_properties) :
        /\ sh.uniform_properties[i].name = name
        /\ \A k \in (i + 1)..Len(sh.uniform_properties) :
               sh.uniform_properties[k].name # name

DeclaredSize(sh, name) == size(sh.uniform_properties[DeclaredAt(sh, name)].ty)

ChangedBytes(before, after) ==
    {i \in 1..Len(before) : i > Len(after) \/ after[i] # before[i]}

(* A typed setter is called with a name the material has an offset for. *)
KnownSetterCall ==
    /\ last'.op \in TypedSetters
    /\ is_some(material) /\ is_some(shader)
    /\ contains_key(unwrap(material).uniform_offsets, last'.name)
    /\ last'.name \in UniformNames(unwrap(shader))

(* C28: a typed setter called with a known property name, whatever the     *)
(* declared type of the property, does not panic and changes only bytes    *)
(* lying inside [offset, offset + size of the declared property) of the    *)
(* uniform buffer.                                                         *)
C28_SettersStayInside ==
    [][KnownSetterCall =>
          /\ last'.result = "ok"
          /\ \A i \in ChangedBytes(unwrap(material).uniform_bytes,
                                   unwrap(material').uniform_bytes) :
                /\ i > unwrap(material).uniform_offsets[last'.name]
                /\ i <= unwrap(material).uniform_offsets[last'.name]
                            + DeclaredSize(unwrap(shader), last'.name)]_vars

(* The two ways the setters leave the declared property: set_vec4 on a     *)
(* Float writes the Vec2 declared behind it, and set_mat4 on a Vec4 that   *)
(* fills the buffer asks for a slice longer than the buffer.               *)
C28_OverwritesNeighbour ==
    ~(/\ last.op = "set_vec4" /\ last.name = "a" /\ last.result = "ok"
      /\ desc.uniform_properties = <<U("Float", "a"), U("Vec2", "b")>>
      /\ Len(unwrap(material).uniform_bytes) = 16
      /\ SubSeq(unwrap(material).uniform_bytes, 9, 12) = to_le_bytes(F32_1_0))

C28_SlicePanics ==
    ~(/\ last.op = "set_mat4" /\ last.name = "a" /\ last.result = "panic"
      /\ desc.uniform_properties = <<U("Vec4", "a")>>
      /\ Len(unwrap(material).uniform_bytes) = 16)

----------------------------------------------------------------------------
(* engine.rs and env_map.rs: mip maps and the environment map.             *)

(* The widest skybox image of this model. *)
MaxWidth == 128

(* texture.rs, lines 235-286: a cube the passes render into.  handle tells *)
(* the wgpu textures of one environment map apart.                         *)
render_target_cube(handle, width, format, mipmap) ==
    [label |-> "Render Target Texture Cube", dimension |-> "D2", view_dimension |-> "Cube",
     size |-> [width |-> width, height |-> width, depth |-> 6], format |-> format,
     mip_level_count |-> IF mipmap
                         THEN max_mips([width |-> width, height |-> width, depth |-> 1])
                         ELSE 1,
     bytes |-> <<>>, handle |-> handle]

(* wgpu::TextureViewDescriptor with dimension D2 and one array layer;      *)
(* level_count None stands for every level from base_mip_level on.         *)
create_view(texture, base_array_layer, base_mip_level, level_count) ==
    [texture |-> texture, dimension |-> "D2", base_array_layer |-> base_array_layer,
     array_layer_count |-> Some(1), base_mip_level |-> base_mip_level,
     level_count |-> level_count]

(* The view a texture is made with: all its layers and levels. *)
whole_view(texture) ==
    [texture |-> texture, dimension |-> texture.view_dimension, base_array_layer |-> 0,
     array_layer_count |-> None, base_mip_level |-> 0, level_count |-> None]

(* wgpu checks the levels a view asks for against the levels the texture   *)
(* was made with; a view that fails the check ends the program.            *)
view_in_range(view) ==
    view.base_mip_level + (IF is_some(view.level_count) THEN unwrap(view.level_count) ELSE 1)
        <= view.texture.mip_level_count

(* The mip levels a view selects. *)
view_levels(view) ==
    IF is_some(view.level_count)
    THEN view.base_mip_level..(view.base_mip_level + unwrap(view.level_count) - 1)
    ELSE view.base_mip_level..(view.texture.mip_level_count - 1)

(* One render pass with one draw: the view it renders into, the view its   *)
(* bind group samples, its pipeline, the camera bind group (-1: none), the *)
(* uniform buffer of its bind group and, once the pass has run on the      *)
(* queue, the bytes it read from that buffer.                              *)
render_pass(label, attachment, sampled, pipeline_name, camera, buffer) ==
    [label |-> label, attachment |-> attachment, sampled |-> sampled,
     pipeline |-> pipeline_name, camera |-> camera, buffer |-> buffer, read |-> <<>>]

run_pass(pass, bufs) ==
    [pass EXCEPT !.read = IF is_some(pass.buffer) /\ contains_key(bufs, unwrap(pass.buffer))
                          THEN bufs[unwrap(pass.buffer)] ELSE <<>>]

(* The queue: the buffers' bytes, the writes waiting for the next submit   *)
(* and the command buffers submitted so far by the running call.           *)
Queue(bufs, writes) == [buffers |-> bufs, pending |-> writes, submitted |-> <<>>]

(* queue.submit of one command buffer: the queued writes land first, then  *)
(* the passes run in order and read the buffers as the writes left them.   *)
submit_landed(queue, label, passes, landed) ==
    [buffers |-> landed, pending |-> <<>>,
     submitted |-> Append(queue.submitted,
                          [label |-> label,
                           passes |-> [k \in DOMAIN passes |-> run_pass(passes[k], landed)]])]

submit(queue, label, passes) ==
    submit_landed(queue, label, passes, apply_writes(queue.buffers, queue.pending))

(* engine.rs, line 519: the view just rendered is sampled by the next pass. *)
(* A loop that keeps sampling the view it started with. *)
keep_last_view(last_view, view) == last_view

next_last_view(last_view, view) == view

(* engine.rs, lines 448-455: the number of levels is taken from the size   *)
(* of one layer.                                                           *)
mipmap_level_count_of(texture) == max_mips([texture.size EXCEPT !.depth = 1])

(* Lines 466-473 and 519: the view the pass of level j of layer i samples: *)
(* the view of level 0 for j = 1, then the view of the pass before.        *)
RECURSIVE last_view_at(_, _, _)
last_view_at(texture, i, j) ==
    IF j = 1 THEN create_view(texture, i, 0, Some(1))
    ELSE next_last_view(last_view_at(texture, i, j - 1), create_view(texture, i, j - 1, Some(1)))

(* Lines 475-517, level j: the view is made, then the pass looks its       *)
(* pipeline up by the name "Blit-" and the format.  Either can panic.      *)
level_panics(pipelines, texture, j) ==
    \/ ~view_in_range(create_view(texture, 0, j, Some(1)))
    \/ ~contains_key(pipelines, "Blit-" \o texture.format)

(* The first level of 1..mipmap_level_count - 1 that panics, 0 for none. *)
first_panic(pipelines, texture, mipmap_level_count) ==
    IF \E j \in 1..(mipmap_level_count - 1) : level_panics(pipelines, texture, j)
    THEN CHOOSE j \in 1..(mipmap_level_count - 1) :
             /\ level_panics(pipelines, texture, j)
             /\ \A k \in 1..(j - 1) : ~level_panics(pipelines, texture, k)
    ELSE 0

(* The views made for layer i up to level upto, and the passes recorded. *)
layer_views(texture, i, upto) ==
    <<create_view(texture, i, 0, Some(1))>>
        \o [j \in 1..upto |-> create_view(texture, i, j, Some(1))]

layer_passes(texture, i, upto) ==
    [j \in 1..upto |->
        render_pass("Render Pass - Mipmap", create_view(texture, i, j, Some(1)),
                    last_view_at(texture, i, j), "Blit-" \o texture.format, -1, None)]

(* engine.rs, lines 465-521: layer i from 0, its levels from 1.  views     *)
(* lists the views asked for, passes the passes recorded; stop is the      *)
(* level that panics.                                                      *)
RECURSIVE mipmap_loop(_, _, _, _, _, _)
mipmap_loop(texture, mipmap_level_count, stop, i, views, passes) ==
    IF i >= texture.size.depth
    THEN [result |-> "ok", views |-> views, passes |-> passes]
    ELSE IF stop # 0
    THEN [result |-> "panic", views |-> views \o layer_views(texture, i, stop),
          passes |-> passes \o layer_passes(texture, i, stop - 1)]
    ELSE mipmap_loop(texture, mipmap_level_count, stop, i + 1,
                     views \o layer_views(texture, i, mipmap_level_count - 1),
                     passes \o layer_passes(texture, i, mipmap_level_count - 1))

(* A generate_mipmap that records its passes and submits nothing. *)
mipmap_unsubmitted(queue, looped) ==
    [result |-> looped.result, views |-> looped.views, queue |-> queue]

(* Lines 523-525: the one submit, which a panic in the loop never reaches. *)
mipmap_submit(queue, looped) ==
    [result |-> looped.result, views |-> looped.views,
     queue |-> IF looped.result = "ok"
               THEN submit(queue, "Render Encoder - Mipmap", looped.passes)
               ELSE queue]

(* engine.rs, lines 447-526. *)
generate_mipmap(queue, pipelines, texture) ==
    mipmap_submit(queue,
                  mipmap_loop(texture, mipmap_level_count_of(texture),
                              first_panic(pipelines, texture, mipmap_level_count_of(texture)),
                              0, <<>>, <<>>))

(* Bit patterns of j as f32 / 6.0 for j = 1, 2, ...: 0.16666667, 0.33333334, *)
(* 0.5, 0.6666667, 0.8333333, 1.0, 1.1666666, 1.3333334, 1.5, 1.6666666,   *)
(* 1.8333334.                                                              *)
SixthsF32 ==
    <<F32(124, 2796203), F32(125, 2796203), F32(126, 0), F32(126, 2796203),
      F32(126, 5592405), F32(127, 0), F32(127, 1398101), F32(127, 2796203),
      F32(127, 4194304), F32(127, 5592405), F32(127, 6990507)>>

div_6(j) == IF j = 0 THEN 0 ELSE SixthsF32[j]

(* f32::min of two values that are not negative: their bit patterns are    *)
(* ordered as the values are.                                              *)
f32_min(a, b) == IF a <= b THEN a ELSE b

(* env_map.rs, line 237. *)
roughness_of(j) == f32_min(div_6(j), F32_1_0)

(* Lines 146-154: the uniform buffer of the pre-calculation passes, four   *)
(* bytes no write has defined yet (-1).                                    *)
pre_calc_uniform_buffer == <<-1, -1, -1, -1>>

(* Lines 184-217: six passes, pass i with camera i rendering into a view   *)
(* of layer i that names no level.                                         *)
irradiance_passes(cubemap, irradiance, id) ==
    [k \in 1..6 |->
        render_pass("Render Pass - EnvMap - Irradiance",
                    create_view(irradiance, k - 1, 0, None), whole_view(cubemap),
                    "EnvMap-Irradiance", k - 1, Some(id))]

(* Lines 243-278: the six passes of level j. *)
prefilter_passes(cubemap, prefiltered, id, j) ==
    [k \in 1..6 |->
        render_pass("Render Pass - EnvMap - Prefilter",
                    create_view(prefiltered, k - 1, j, Some(1)), whole_view(cubemap),
                    "EnvMap-Prefilter", k - 1, Some(id))]

(* Lines 236-279: for each level the roughness is written to the buffer    *)
(* through the queue and the six passes are recorded.                      *)
RECURSIVE prefilter_loop(_, _, _, _, _, _, _)
prefilter_loop(cubemap, prefiltered, id, mipmap_level_count, j, writes, passes) ==
    IF j >= mipmap_level_count
    THEN [pending |-> writes, passes |-> passes]
    ELSE prefilter_loop(cubemap, prefiltered, id, mipmap_level_count, j + 1,
                        write_buffer(writes, id, 0, to_le_bytes(roughness_of(j))),
                        passes \o prefilter_passes(cubemap, prefiltered, id, j))

(* Lines 280-290: the one submit of the prefilter passes; the buffer goes  *)
(* with the call, the three cubes and their bind group are returned.       *)
env_finish(queue, id, cubemap, irradiance, prefiltered, looped) ==
    LET done == submit([queue EXCEPT !.pending = looped.pending],
                       "Render Encoder - EnvMap - Prefilter", looped.passes) IN
    [result |-> "ok",
     env_map |-> Some(EnvMap_of(cubemap, irradiance, prefiltered)),
     queue |-> [done EXCEPT !.buffers = remove_key(@, id)]]

(* Lines 221-279, after the irradiance levels are generated. *)
env_prefilter(id, cubemap, irradiance, prefiltered, mips) ==
    IF mips.result # "ok"
    THEN [result |-> "panic", env_map |-> None, queue |-> mips.queue]
    ELSE env_finish(mips.queue, id, cubemap, irradiance, prefiltered,
                    prefilter_loop(cubemap, prefiltered, id, mipmap_level_count_of(cubemap),
                                   0, mips.queue.pending, <<>>))

(* Lines 176-221, after the levels of the cubemap are generated. *)
env_irradiance(pipelines, id, cubemap, irradiance, prefiltered, base) ==
    IF base.result # "ok"
    THEN [result |-> "panic", env_map |-> None, queue |-> base.queue]
    ELSE env_prefilter(id, cubemap, irradiance, prefiltered,
                       generate_mipmap(submit(base.queue,
                                              "Render Encoder - EnvMap - Irradiance",
                                              irradiance_passes(cubemap, irradiance, id)),
                                       pipelines, irradiance))

(* Lines 81-176: the three cubes, the uniform buffer under id, and the     *)
(* levels of the cubemap.                                                  *)
env_textures(queue, pipelines, id, cubemap, irradiance, prefiltered) ==
    env_irradiance(pipelines, id, cubemap, irradiance, prefiltered,
                   generate_mipmap([queue EXCEPT !.buffers =
                                        insert(@, id, pre_calc_uniform_buffer)],
                                   pipelines, cubemap))

(* env_map.rs, lines 73-291. *)
create_env_map(queue, pipelines, id, bytes, width, format, label) ==
    env_textures(queue, pipelines, id,
                 from_bytes_cube(bytes, width, format, TRUE, label),
                 render_target_cube(1, width, format, TRUE),
                 render_target_cube(2, width, format, TRUE))

(* An image file: None when it does not open, else its width and the      *)
(* colour of its pixels.                                                   *)
RECURSIVE first_unopened(_, _)
first_unopened(images, k) ==
    IF k > Len(images) THEN 0
    ELSE IF is_none(images[k]) THEN k
    ELSE first_unopened(images, k + 1)

RECURSIVE collect_bytes(_, _)
collect_bytes(images, k) ==
    IF k > Len(images) THEN <<>>
    ELSE unwrap(images[k]).pixel \o collect_bytes(images, k + 1)

(* engine.rs, line 273: the new environment map takes the place of the old. *)
(* A load that keeps the cubemap it had. *)
keep_cubemap(old, new) == [new EXCEPT !.cubemap = old.cubemap]

replace_skybox(old, new) == new

load_skybox_made(e, made) ==
    IF made.result # "ok"
    THEN [result |-> "panic", engine |-> e, queue |-> made.queue]
    ELSE [result |-> "ok", queue |-> made.queue,
          engine |-> [e EXCEPT !.skybox = replace_skybox(e.skybox, unwrap(made.env_map))]]

(* engine.rs, lines 219-276: the six images are opened in order and the    *)
(* first that fails ends the call with its error; the width is that of the *)
(* first image.                                                            *)
load_skybox(e, queue, pipelines, id, images) ==
    IF first_unopened(images, 1) # 0
    THEN [result |-> "err", engine |-> e, queue |-> queue]
    ELSE load_skybox_made(e, create_env_map(queue, pipelines, id, collect_bytes(images, 1),
                                            unwrap(images[1]).width, "Rgba8UnormSrgb",
                                            "EnvMap"))

(* engine.rs, lines 528-534: generate_mipmap for the textures walk lists   *)
(* (pairs of a material name and a texture name), until one panics.        *)
RECURSIVE generate_all_loop(_, _, _, _, _)
generate_all_loop(pipelines, materials, walk, k, done) ==
    IF k > Len(walk) \/ done.result # "ok" THEN done
    ELSE generate_all_loop(pipelines, materials, walk, k + 1,
                           [generate_mipmap(done.queue, pipelines,
                                            materials[walk[k][1]].textures[walk[k][2]])
                               EXCEPT !.views = done.views \o @])

generate_all_mipmaps(queue, pipelines, materials, walk) ==
    generate_all_loop(pipelines, materials, walk, 1,
                      [result |-> "ok", views |-> <<>>, queue |-> queue])

(* The walks of `for (_, mat) in &self.materials { for (_, tex) in         *)
(* &mat.textures`: every order of the materials and, within a material,    *)
(* every order of its textures.                                            *)
TexturePairs(materials) ==
    UNION {{<<m, t>> : t \in DOMAIN materials[m].textures} : m \in DOMAIN materials}

Walks(materials) ==
    {walk \in Orders(TexturePairs(materials)) :
        \A a, c \in DOMAIN walk :
            (a < c /\ walk[a][1] = walk[c][1]) =>
                \A b \in a..c : walk[b][1] = walk[a][1]}

(* The skybox files of a run: six images of one width, face k in colour k, *)
(* or five of them and one file that does not open.                        *)
SkyboxWidths == {1, 2, 3, 8, 64, MaxWidth}

FaceImage(width, k) == Some([width |-> width, pixel |-> <<k, k, k, 255>>])

SkyboxFiles ==
    {[k \in 1..6 |-> IF k = missing THEN None ELSE FaceImage(width, k)] :
        width \in SkyboxWidths, missing \in 0..6}

(* The textures generate_mipmap is called on: textures of files, made with *)
(* and without mip levels, the placeholders and the cubes of the skybox.   *)
FileTextures ==
    {from_bytes_2d(<<0, 0, 0, 255>>, sz[1], sz[2], format, mipmap, "GLTF Texture 2D") :
        sz \in {<<1, 1>>, <<2, 2>>, <<3, 5>>},
        format \in {"Rgba8UnormSrgb", "R8Unorm"},
        mipmap \in BOOLEAN}

MipmapTextures(e) ==
    FileTextures \cup {white1x1, default_cube, black1x1x1}
        \cup {e.skybox.cubemap, e.skybox.irradiance, e.skybox.prefiltered}

QueueStep(op, name, views, texture, r) ==
    /\ buffers' = r.queue.buffers
    /\ pending' = r.queue.pending
    /\ submitted' = r.queue.submitted
    /\ last' = Call(op, name, views, texture, <<>>, r.result)

LoadSkybox ==
    /\ Running /\ is_some(engine)
    /\ \E images \in SkyboxFiles :
       \E r \in {load_skybox(unwrap(engine), Queue(buffers, pending), render_pipelines,
                             next_buffer, images)} :
          /\ engine' = Some(r.engine)
          /\ QueueStep("Engine::load_skybox", "", images, None, r)
    /\ UNCHANGED <<input, render_pipelines, frame, error, desc, args, shader, material,
                   next_buffer, history>>

GenerateMipmap ==
    /\ Running /\ is_some(engine)
    /\ \E texture \in MipmapTextures(unwrap(engine)) :
       \E r \in {generate_mipmap(Queue(buffers, pending), render_pipelines, texture)} :
          QueueStep("Engine::generate_mipmap", texture.label, r.views, Some(texture), r)
    /\ UNCHANGED <<input, engine, render_pipelines, frame, error, desc, args, shader, material,
                   next_buffer, history>>

GenerateAllMipmaps ==
    /\ Running /\ is_some(engine)
    /\ \E walk \in Walks(unwrap(engine).materials) :
       \E r \in {generate_all_mipmaps(Queue(buffers, pending), render_pipelines,
                                      unwrap(engine).materials, walk)} :
          QueueStep("Engine::generate_all_mipmaps", "", r.views, None, r)
    /\ UNCHANGED <<input, engine, render_pipelines, frame, error, desc, args, shader, material,
                   next_buffer, history>>

(* main.rs: the engine is made, the skybox and the shader file are loaded  *)
(* and the mip maps are generated.                                         *)
EnvInputs ==
    {[path |-> "shaders.json", files |-> Disk(Some(ShaderFile(shaders, materials)))] :
        shaders \in {<<PBR>>, <<PBR, Unlit>>},
        materials \in {<<MaterialOf("m1", "PBR")>>,
                       <<MaterialOf("m1", "PBR"), MaterialOf("m2", "PBR")>>}}

EnvInit ==
    /\ desc \in Descriptions({<<>>}, {<<>>}, {GoodSubShaders})
    /\ args = [floats |-> {}, vectors |-> {}]
    /\ shader = None
    /\ material = None
    /\ buffers = EmptyMap
    /\ next_buffer = 1
    /\ pending = <<>>
    /\ last = NoCall
    /\ history = NoHistory
    /\ input \in {Some(i) : i \in EnvInputs}
    /\ engine = Some(Engine_new)
    /\ render_pipelines = init_inner_pipelines
    /\ frame = <<>>
    /\ submitted = <<>>
    /\ error = None

EnvNext == LoadSkybox \/ LoadShaders \/ GenerateMipmap \/ GenerateAllMipmaps

EnvSpec == EnvInit /\ [][EnvNext]_vars

(***************************************************************************)
(* Properties of the mip maps and the environment map (EnvSpec).           *)
(***************************************************************************)
SkyboxLoaded == last.op = "Engine::load_skybox" /\ last.result = "ok"

(* View v selects exactly layer i and level k of texture. *)
SelectsOnly(v, texture, i, k) ==
    /\ v.texture = texture
    /\ v.base_array_layer = i /\ v.array_layer_count = Some(1)
    /\ view_levels(v) = {k}

(* The command buffer renders the levels 1..L-1 of the six faces of        *)
(* texture once each, each from the level below it, faces' levels in       *)
(* increasing order, and renders into no level 0.                          *)
MipChainRendered(texture, commands) ==
    LET L == texture.mip_level_count
        passes == commands.passes IN
    /\ Len(passes) = 6 * (L - 1)
    /\ \A i \in 0..5, k \in 1..(L - 1) :
          /\ Cardinality({p \in DOMAIN passes :
                             SelectsOnly(passes[p].attachment, texture, i, k)}) = 1
          /\ \A p \in DOMAIN passes :
                SelectsOnly(passes[p].attachment, texture, i, k) =>
                    SelectsOnly(passes[p].sampled, texture, i, k - 1)
    /\ \A p \in DOMAIN passes : 0 \notin view_levels(passes[p].attachment)
    /\ \A p, q \in DOMAIN passes :
          (p < q /\ passes[p].attachment.base_array_layer
                        = passes[q].attachment.base_array_layer) =>
              passes[p].attachment.base_mip_level < passes[q].attachment.base_mip_level

(* C22: a cubemap of width W made with a mip chain has floor(log2(W)) + 1  *)
(* levels (2^(L-1) <= W < 2^L, so level L-1 is the one of width 1), and    *)
(* generate_mipmap renders each level k of 1..L-1 of each of its six faces *)
(* exactly once, from level k-1 of the same face, in increasing k, and     *)
(* never renders into level 0.                                             *)
C22_MipChain ==
    SkyboxLoaded =>
        LET cubemap == unwrap(engine).skybox.cubemap
            L == cubemap.mip_level_count IN
        /\ 2^(L - 1) <= cubemap.size.width /\ cubemap.size.width < 2^L
        /\ Len(submitted) >= 1
        /\ submitted[1].label = "Render Encoder - Mipmap"
        /\ MipChainRendered(cubemap, submitted[1])

(* A skybox of width 64: seven levels, 36 passes. *)
C22_Witness ==
    /\ SkyboxLoaded
    /\ unwrap(engine).skybox.cubemap.size.width = 64
    /\ unwrap(engine).skybox.cubemap.mip_level_count = 7
    /\ Len(submitted[1].passes) = 36

(* The submission of the prefilter passes of the latest load_skybox. *)
PrefilterPasses == submitted[4].passes

(* C23: in create_env_map every draw that renders mip level j of the       *)
(* prefiltered cubemap reads, when its commands run on the queue, the      *)
(* roughness min(j/6, 1.0) from the uniform buffer; the values do not      *)
(* decrease with j and are 1.0 from level 6 on.                            *)
C23_RoughnessPerLevel ==
    SkyboxLoaded =>
        LET L == unwrap(engine).skybox.prefiltered.mip_level_count IN
        /\ Len(submitted) = 4
        /\ \A p \in DOMAIN PrefilterPasses :
              PrefilterPasses[p].read =
                  to_le_bytes(roughness_of(PrefilterPasses[p].attachment.base_mip_level))
        /\ \A j \in 0..(L - 1), k \in 0..(L - 1) :
              j <= k => roughness_of(j) <= roughness_of(k)
        /\ \A j \in 0..(L - 1) : j >= 6 => roughness_of(j) = F32_1_0

(* What the draws of a loaded skybox read instead: all of them the value   *)
(* of the last level.                                                      *)
C23_AllReadLastLevel ==
    SkyboxLoaded =>
        \A p \in DOMAIN PrefilterPasses :
            PrefilterPasses[p].read =
                to_le_bytes(roughness_of(unwrap(engine).skybox.prefiltered.mip_level_count - 1))

Labels(commands) == [s \in DOMAIN commands |-> commands[s].label]

Attached(commands) ==
    {commands.passes[p].attachment.texture : p \in DOMAIN commands.passes}

(* The submissions whose passes sample texture through a bind group other  *)
(* than the one of the blit that generates its levels.                     *)
SamplingSubmissions(texture) ==
    {s \in DOMAIN submitted :
        \E p \in DOMAIN submitted[s].passes :
            /\ submitted[s].passes[p].sampled.texture = texture
            /\ submitted[s].passes[p].label # "Render Pass - Mipmap"}

(* C24: create_env_map makes four submissions to the queue, in the order   *)
(* levels of the base cubemap, irradiance, levels of the irradiance cube,  *)
(* prefilter, each a command buffer of its own; every pass that samples    *)
(* the base cubemap is in a submission after the one that generates the    *)
(* levels of the base cubemap.                                             *)
C24_StagesInOrder ==
    SkyboxLoaded =>
        LET sky == unwrap(engine).skybox IN
        /\ Labels(submitted) = <<"Render Encoder - Mipmap",
                                 "Render Encoder - EnvMap - Irradiance",
                                 "Render Encoder - Mipmap",
                                 "Render Encoder - EnvMap - Prefilter">>
        /\ Attached(submitted[1]) \subseteq {sky.cubemap}
        /\ Attached(submitted[2]) = {sky.irradiance}
        /\ Attached(submitted[3]) \subseteq {sky.irradiance}
        /\ Attached(submitted[4]) = {sky.prefiltered}
        /\ sky.cubemap.mip_level_count > 1 =>
              /\ Attached(submitted[1]) = {sky.cubemap}
              /\ Attached(submitted[3]) = {sky.irradiance}
        /\ SamplingSubmissions(sky.cubemap) = {2, 4}

(* A skybox of width 8, whose four submissions all have passes. *)
C24_Witness ==
    /\ SkyboxLoaded
    /\ unwrap(engine).skybox.cubemap.size.width = 8
    /\ Len(submitted) = 4
    /\ \A s \in 1..4 : submitted[s].passes # <<>>

(* The submission of the irradiance passes of the latest load_skybox. *)
IrradiancePasses == submitted[2].passes

(* C25: the irradiance stage of create_env_map has exactly six draws, draw *)
(* i with camera i, and the view draw i renders into selects exactly face  *)
(* i and mip level 0 of the irradiance cube, one face and one level; the   *)
(* further levels of the irradiance cube are rendered afterwards, by the   *)
(* submission of generate_mipmap.                                          *)
C25_IrradianceFaces ==
    SkyboxLoaded =>
        LET irradiance == unwrap(engine).skybox.irradiance IN
        /\ Len(submitted) = 4
        /\ Len(IrradiancePasses) = 6
        /\ \A k \in DOMAIN IrradiancePasses :
              /\ IrradiancePasses[k].camera = k - 1
              /\ IrradiancePasses[k].pipeline = "EnvMap-Irradiance"
              /\ SelectsOnly(IrradiancePasses[k].attachment, irradiance, k - 1, 0)
        /\ MipChainRendered(irradiance, submitted[3])

(* What holds of the six views: face i, and every level of the cube. *)
C25_ViewsOfAllLevels ==
    SkyboxLoaded =>
        LET irradiance == unwrap(engine).skybox.irradiance IN
        /\ Len(IrradiancePasses) = 6
        /\ \A k \in DOMAIN IrradiancePasses :
              /\ IrradiancePasses[k].camera = k - 1
              /\ IrradiancePasses[k].attachment.base_array_layer = k - 1
              /\ IrradiancePasses[k].attachment.array_layer_count = Some(1)
              /\ view_levels(IrradiancePasses[k].attachment)
                     = 0..(irradiance.mip_level_count - 1)
        /\ MipChainRendered(irradiance, submitted[3])

Skybox == unwrap(engine).skybox

(* The four parts of an environment map belong to one another: the bind    *)
(* group binds its three cubes.                                            *)
BindsItsCubes(sky) ==
    /\ sky.bind_group.entries[1].texture = sky.cubemap
    /\ sky.bind_group.entries[3].texture = sky.irradiance
    /\ sky.bind_group.entries[5].texture = sky.prefiltered
    /\ sky.bind_group = env_bind_group(sky.cubemap, sky.irradiance, sky.prefiltered)

(* One pixel per face, one level, nothing rendered into the cubes. *)
DefaultShape(sky) ==
    /\ \A texture \in {sky.cubemap, sky.irradiance, sky.prefiltered} :
          /\ texture = default_cube
          /\ texture.size = [width |-> 1, height |-> 1, depth |-> 6]
          /\ texture.mip_level_count = 1
    /\ BindsItsCubes(sky)

(* Every part of sky is one made by a load of images width pixels wide. *)
MadeFor(sky, width) ==
    /\ sky.cubemap.label = "EnvMap"
    /\ sky.irradiance.label = "Render Target Texture Cube" /\ sky.irradiance.handle = 1
    /\ sky.prefiltered.label = "Render Target Texture Cube" /\ sky.prefiltered.handle = 2
    /\ \A texture \in {sky.cubemap, sky.irradiance, sky.prefiltered} :
          /\ texture.size = [width |-> width, height |-> width, depth |-> 6]
          /\ texture # default_cube
    /\ BindsItsCubes(sky)

(* C26: the engine holds one environment map at all times: the default one *)
(* (one pixel per face, one level, nothing rendered) from construction     *)
(* until a load_skybox succeeds; a load_skybox that succeeds replaces the  *)
(* cubemap, the irradiance cube, the prefiltered cube and the bind group   *)
(* together; a load_skybox that returns an error, and every other call,    *)
(* leaves the environment map as it was.                                   *)
C26_OneEnvMap ==
    /\ is_some(engine) /\ Skybox = EnvMap_default /\ DefaultShape(Skybox)
    /\ [][IF last'.op = "Engine::load_skybox" /\ last'.result = "ok"
          THEN MadeFor(unwrap(engine').skybox, unwrap(last'.value[1]).width)
          ELSE unwrap(engine').skybox = Skybox]_vars

(* A load_skybox that fails after one that succeeded: the loaded map stays. *)
C26_Witness ==
    /\ last.op = "Engine::load_skybox" /\ last.result = "err"
    /\ Skybox # EnvMap_default
    /\ MadeFor(Skybox, 8)

MipmapCall == last.op \in {"Engine::generate_mipmap", "Engine::generate_all_mipmaps"}

(* C30: for every texture given to generate_mipmap, directly or by         *)
(* generate_all_mipmaps, every mip level it makes a view of, and every     *)
(* level a pass it submits renders into, is below the mip_level_count the  *)
(* texture was made with, whether it was made with or without mip levels.  *)
C30_LevelsAllocated ==
    MipmapCall =>
        /\ \A k \in DOMAIN last.value :
              last.value[k].base_mip_level < last.value[k].texture.mip_level_count
        /\ \A s \in DOMAIN submitted : \A p \in DOMAIN submitted[s].passes :
              \A j \in view_levels(submitted[s].passes[p].attachment) :
                  j < submitted[s].passes[p].attachment.texture.mip_level_count

(* What holds instead: the views stay inside the allocated levels for the  *)
(* textures made with mip levels, and for those of one pixel.              *)
C30_MadeWithMipmaps ==
    (/\ last.op = "Engine::generate_mipmap"
     /\ unwrap(last.texture).mip_level_count
            = mipmap_level_count_of(unwrap(last.texture))) =>
        /\ \A k \in DOMAIN last.value :
              last.value[k].base_mip_level < unwrap(last.texture).mip_level_count
        /\ last.result = "panic" => unwrap(last.texture).format = "R8Unorm"

====
